---- MODULE Spec2Model ----
(***************************************************************************)
(* AlphaCodium (shism2/AlphaCodium): the model invocation layer            *)
(* (alpha_codium/llm), the stage pipeline (alpha_codium/gen/               *)
(* problem_solver.py), the dataset driver and its iteration database       *)
(* (alpha_codium/gen/dataset_solver.py) and the solution store             *)
(* (alpha_codium/simplified_solver.py, alpha_codium/db).                   *)
(*                                                                         *)
(* The subsystems do not share state, so each has its own specification    *)
(* over the module's variables: SpecRouter, SpecSolved, SpecPipeline,      *)
(* SpecStore, SpecDataset.  A specification leaves the variables of the    *)
(* other subsystems at their idle values.                                  *)
(***************************************************************************)
EXTENDS Integers, Sequences, FiniteSets, TLC

VARIABLES
    \* ---- ai_invoker.send_inference / AiHandler / GeminiHandler
    all_models,     \* _get_all_models(): [config.model] + config.fallback_models
    backend,        \* the text-generation backend: per backend model, -1 = always
                    \* raises, n >= 0 = raises on its next n calls, then answers
    siPc,           \* position in send_inference
    siIdx,          \* the loop index i of send_inference (1-based here)
    fCalls,         \* the calls f(model) made so far, with their outcome
    siResult,       \* what send_inference returned or raised
    gwPc,           \* position in chat_completion
    gwTries,        \* _tries of the retry wrapper around the running invoke
    gwAttempts,     \* backend generate calls made by the running invoke
    gwOutcome,      \* what the running invoke returned or raised
    limiter,        \* AsyncLimiter: acquisitions made
    backendLog,     \* every backend generate call: [model, acquired]
    \* ---- dataset_solver.is_solved applied to one iteration record
    solvedIn,       \* the record s handed to is_solved
    solvedOut,      \* whether is_solved was called, and the boolean it returned
    \* ---- ProblemSolver.solve
    use_baseline,   \* the setting solve.use_baseline
    psIteration,    \* the iteration argument of solve
    psPc,           \* position in solve: "idle", the step about to run, "except", "done"
    psProblem,      \* the problem dict the next stage receives
    psLog,          \* the steps (set_configurations, stages, baseline) called so far
    psRaised,       \* the step that raised, and why ("none" while none has)
    psResult,       \* what solve returned or raised
    \* ---- SimplifiedSolver.solve_problem and the DatabaseManager tables
    problems,       \* table problems: rows [id, name, description], by rowid
    solutions,      \* table solutions: rows [id, problem_id, model_id, code,
                    \*   success, created_at], by rowid
    models,         \* table models: id -> [present, usage_count, has_info]
    clock,          \* CURRENT_TIMESTAMP, in whole seconds
    callNo,         \* solve_problem calls made so far
    lastCall,       \* the latest solve_problem call: arguments, outcome, effects
    model_list_id,  \* the id ModelManager.get_model_by_id finds ("none": nothing)
    no_cache,       \* args.no_cache of the solve.py run that made the last call
    \* ---- dataset_solver.solve_dataset
    dataset,        \* per problem index: the problem's is_valid_problem field
    dsFile,         \* the solution-database file: whether it exists, and the
                    \*   members (key text, entry) of the split's JSON object
    database,       \* database[split_name]: (key, entry) pairs in insertion order
    dsLoaded,       \* database[split_name] as it was right after loading
    loadFailed,     \* whether loading the file raised in this call
    dsRun,          \* "first": no file yet; "resume": a later call of solve_dataset
    dsPc,           \* position in solve_dataset
    problem_number, \* the problem loop's index
    iteration,      \* the iteration loop's index
    problem_database, \* problem_database[problem_number]: records by iteration
    solverCalls,    \* (problem, iteration) pairs the solver was invoked for
    harnessCalls,   \* (problem, iteration) pairs the test harness was run for
    emptySolutions, \* empty solutions the solver has returned in this call
    \* ---- the entry points that accept a test batch
    batchEntry,     \* which entry point is called
    test_inputs,    \* the batch's inputs
    test_outputs,   \* the batch's expected outputs
    has_description, \* whether the problem description is non-empty
    batchPc,        \* "call" before the entry point runs, "done" after
    batchOutcome,   \* what the entry point did
    \* ---- evaluate_solution_on_subset (the evaluation harness)
    evBatchName,    \* the batch evaluated
    evCases,        \* per test case, what the candidate code does on it
    evPc,           \* "run" while cases remain to be looked at, "returned" after
    evIdx,          \* the case the harness is at
    evResults,      \* per executed case: its index and its outcome
    evCounts,       \* the passed / failed / timed_out counters
    \* ---- SimplifiedSolver.solve, one model call at a time
    svRun,          \* what the model does in this run: the call that raises
                    \*   (0: none), its error text, the test response
    svPc,           \* "call" before a prompt is run, "await" while its model
                    \*   call is in flight, "done" after solve has ended
    svStep,         \* the prompt type of the current _run_prompt
    svCalls,        \* the model calls issued so far, in order
    svReturned,     \* how many of them have returned a response
    svResult,       \* the text solve returned
    svRaised,       \* whether an exception left solve
    \* ---- evaluate_dataset.evaluate_dataset_solution
    edPc,           \* "loop" while database keys remain, "done" after
    edIdx,          \* database keys looked at so far
    edEntry,        \* the key looked at last: whether its problem is valid,
                    \*   whether fetching it raised, and its iteration records
    total_passed,   \* the counter total_passed
    total_failed,   \* the counter total_failed
    \* ---- two solve_dataset runs on one solution-database file
    ccFile,         \* the file: whether it exists, and its members
    ccDatabase,     \* per run: the database[split_name] it holds in memory
    ccPc,           \* per run: "load", "problem", "finished"
    ccProblem,      \* per run: its problem_number
    ccWork,         \* per run: the problems it works on (the others are not
                    \*   valid in the dataset it was given)
    ccWrote,        \* per run: the problems whose record it has written
    \* ---- two save_problem calls on one database
    spTable,        \* table problems
    spProblem,      \* per call: the problem saved
    spPc,           \* per call: "select", "write", "done"
    spExisting,     \* per call: the id its SELECT fetched (0: no row)
    spId            \* per call: the id returned

routerVars == <<all_models, backend, siPc, siIdx, fCalls, siResult,
                gwPc, gwTries, gwAttempts, gwOutcome, limiter, backendLog>>

solvedVars == <<solvedIn, solvedOut>>

pipelineVars == <<use_baseline, psIteration, psPc, psProblem, psLog, psRaised, psResult>>

storeVars == <<problems, solutions, models, clock, callNo, lastCall, model_list_id,
               no_cache>>

datasetVars == <<dataset, dsFile, database, dsLoaded, loadFailed, dsRun, dsPc, problem_number,
                 iteration, problem_database, solverCalls, harnessCalls,
                 emptySolutions>>

batchVars == <<batchEntry, test_inputs, test_outputs, has_description, batchPc,
               batchOutcome>>

harnessVars == <<evBatchName, evCases, evPc, evIdx, evResults, evCounts>>

stepVars == <<svRun, svPc, svStep, svCalls, svReturned, svResult, svRaised>>

\* the subsystems added after the first seven
evalVars == <<edPc, edIdx, edEntry, total_passed, total_failed>>

runsVars == <<ccFile, ccDatabase, ccPc, ccProblem, ccWork, ccWrote>>

savesVars == <<spTable, spProblem, spPc, spExisting, spId>>

laterVars == <<stepVars, evalVars, runsVars, savesVars>>

vars == <<routerVars, solvedVars, pipelineVars, storeVars, datasetVars, batchVars,
          harnessVars, laterVars>>

firstVars == <<routerVars, solvedVars, pipelineVars, storeVars, datasetVars, batchVars,
               harnessVars>>

\* what the actions of one subsystem leave alone
nonRouterVars == <<solvedVars, pipelineVars, storeVars, datasetVars, batchVars,
    harnessVars, laterVars>>
nonSolvedVars == <<routerVars, pipelineVars, storeVars, datasetVars, batchVars,
    harnessVars, laterVars>>
nonPipelineVars == <<routerVars, solvedVars, storeVars, datasetVars, batchVars,
    harnessVars, laterVars>>
nonStoreVars == <<routerVars, solvedVars, pipelineVars, datasetVars, batchVars,
    harnessVars, laterVars>>
nonDatasetVars == <<routerVars, solvedVars, pipelineVars, storeVars, batchVars,
    harnessVars, laterVars>>
nonHarnessVars == <<routerVars, solvedVars, pipelineVars, storeVars, datasetVars,
                    batchVars, laterVars>>
nonStepVars == <<firstVars, evalVars, runsVars, savesVars>>
nonEvalVars == <<firstVars, stepVars, runsVars, savesVars>>
nonRunsVars == <<firstVars, stepVars, evalVars, savesVars>>
nonSavesVars == <<firstVars, stepVars, evalVars, runsVars>>
nonBatchVars == <<routerVars, solvedVars, pipelineVars, storeVars, datasetVars,
    harnessVars, laterVars>>

(***************************************************************************)
(* Bounds of the model                                                     *)
(***************************************************************************)
MaxModels == 3          \* longest configured model list
MaxRecords == 2         \* most iteration records of a problem in an evaluated database
MaxTransient == 1       \* most transient failures a backend model starts with
MaxCount == 1           \* largest passed/failed/timed-out count of a batch
NumIterations == 3      \* dataset.num_iterations: iterations tried per problem
NumProblems == 2        \* problems in the split
MaxEmpty == 1           \* most empty solutions the solver returns in one call
MaxTests == 2           \* longest list of test inputs or outputs
MaxCalls == 2           \* solve_problem calls in one run of the store
MaxClock == 1           \* seconds the store's clock may advance

(***************************************************************************)
(* Program constants                                                       *)
(***************************************************************************)
GEMINI_RETRIES == 5

None == "None"

(***************************************************************************)
(* Model identifiers and the backend                                       *)
(***************************************************************************)
ModelIds == {"gemini-2.0-pro", "gemini-2.0-flash", "other-model"}
BackendModels == {"models/gemini-2.0-pro-exp", "models/gemini-2.0-flash"}

\* GeminiHandler._map_model_name: unknown names fall back to the flash model
_map_model_name(model_name) ==
    IF model_name = "gemini-2.0-pro" THEN "models/gemini-2.0-pro-exp"
    ELSE "models/gemini-2.0-flash"

\* sequences over S of length lo..hi
SeqsUpTo(S, lo, hi) == UNION {[1..n -> S] : n \in lo..hi}

\* _get_all_models: the primary model followed by the fallback models
_get_all_models(model, fallback_models) == <<model>> \o fallback_models

\* client.models.generate_content on a backend model in state b
BackendRaises(b) == b # 0
BackendAfterCall(b) == IF b > 0 THEN b - 1 ELSE b

\* what f(model) = chat_completion(model, ...) returns on success: (resp, None)
Response(model) == [by |-> model, resp |-> _map_model_name(model), finish_reason |-> None]
\* the exception a failed generate call raises
BackendError(model) == [by |-> model, error |-> _map_model_name(model)]

(***************************************************************************)
(* The retry decorator (retry.api.__retry_internal) as applied to          *)
(* chat_completion: the loop `while _tries: try: return f() except ...`.   *)
(* f is an `async def`: calling it builds a coroutine object and runs none *)
(* of its body, so f() cannot raise inside the loop.                       *)
(***************************************************************************)
retry_internal(f_raised, _tries) ==
    IF ~f_raised THEN "return"
    ELSE IF _tries - 1 = 0 THEN "raise" ELSE "again"

\* calling a coroutine function raises nothing: the body runs at the await
CoroutineCallRaises == FALSE

(***************************************************************************)
(* send_inference                                                          *)
(***************************************************************************)
NoResult == [kind |-> "none"]

RouterStart ==
    /\ \E model \in ModelIds, fallback_models \in SeqsUpTo(ModelIds, 0, MaxModels - 1) :
          all_models = _get_all_models(model, fallback_models)
    /\ backend \in [BackendModels -> -1..MaxTransient]
    /\ siPc = "idle"
    /\ siIdx = 0
    /\ fCalls = << >>
    /\ siResult = NoResult
    /\ gwPc = "idle"
    /\ gwTries = 0
    /\ gwAttempts = 0
    /\ gwOutcome = NoResult
    /\ limiter = [acquired |-> 0]
    /\ backendLog = << >>

\* send_inference is called: all_models is read, the loop starts
SendInference ==
    /\ siPc = "idle"
    /\ siPc' = "loop"
    /\ siIdx' = 1
    /\ UNCHANGED <<all_models, backend, fCalls, siResult, gwPc, gwTries,
                   gwAttempts, gwOutcome, limiter, backendLog>>
    /\ UNCHANGED nonRouterVars

\* one turn of `for i, model in enumerate(all_models)`: `await f(model)` calls
\* AiHandler.chat_completion, whose retry wrapper calls the coroutine function
\* once and hands back the coroutine; the loop ending without a return makes
\* the function return None
ForModel ==
    /\ siPc = "loop"
    /\ IF siIdx <= Len(all_models)
       THEN /\ retry_internal(CoroutineCallRaises, GEMINI_RETRIES) = "return"
            /\ siPc' = "in_f"
            /\ gwPc' = "awaiting"
            /\ gwTries' = GEMINI_RETRIES
            /\ gwAttempts' = 0
            /\ gwOutcome' = NoResult
            /\ fCalls' = Append(fCalls, [model |-> all_models[siIdx],
                                         outcome |-> "pending", attempts |-> 0])
            /\ UNCHANGED siResult
       ELSE /\ siPc' = "returned"
            /\ siResult' = [kind |-> "None"]
            /\ UNCHANGED <<gwPc, gwTries, gwAttempts, gwOutcome, fCalls>>
    /\ UNCHANGED <<all_models, backend, siIdx, limiter, backendLog>>
    /\ UNCHANGED nonRouterVars

\* the awaited coroutine body: GeminiHandler.chat_completion runs
\* generate_content in the executor; no `async with self.limiter` precedes it
GenerateContent ==
    /\ gwPc = "awaiting"
    /\ LET model == all_models[siIdx]
           gm == _map_model_name(model)
       IN /\ backendLog' = Append(backendLog, [model |-> gm, acquired |-> limiter.acquired])
          /\ gwAttempts' = gwAttempts + 1
          /\ backend' = [backend EXCEPT ![gm] = BackendAfterCall(@)]
          /\ IF BackendRaises(backend[gm])
             THEN /\ gwPc' = "exc"
                  /\ gwOutcome' = [kind |-> "exception", value |-> BackendError(model)]
             ELSE /\ gwPc' = "ok"
                  /\ gwOutcome' = [kind |-> "value", value |-> Response(model)]
    /\ UNCHANGED <<all_models, siPc, siIdx, fCalls, siResult, gwTries, limiter>>
    /\ UNCHANGED nonRouterVars

\* `return await f(model)`: the first call that does not raise ends the loop
OnFReturnKeepTrying(i) == [pc |-> "loop", idx |-> i + 1]

OnFReturn(i) == [pc |-> "returned", idx |-> i]

FReturned ==
    /\ siPc = "in_f"
    /\ gwPc = "ok"
    /\ fCalls' = [fCalls EXCEPT ![Len(fCalls)] =
                      [@ EXCEPT !.outcome = "ok", !.attempts = gwAttempts]]
    /\ siPc' = OnFReturn(siIdx).pc
    /\ siIdx' = OnFReturn(siIdx).idx
    /\ siResult' = gwOutcome
    /\ gwPc' = "idle"
    /\ UNCHANGED <<all_models, backend, gwTries, gwAttempts, gwOutcome,
                   limiter, backendLog>>
    /\ UNCHANGED nonRouterVars

\* the exception surfaces at the await, outside the retry loop, and reaches
\* `except Exception` of send_inference: re-raised on the last model, else
\* the loop goes on
LastModelOffByOne(i, model_list) == i = Len(model_list) + 1

LastModel(i, model_list) == i = Len(model_list)

FRaised ==
    /\ siPc = "in_f"
    /\ gwPc = "exc"
    /\ fCalls' = [fCalls EXCEPT ![Len(fCalls)] =
                      [@ EXCEPT !.outcome = "raised", !.attempts = gwAttempts]]
    /\ gwPc' = "idle"
    /\ IF LastModel(siIdx, all_models)
       THEN /\ siPc' = "raised"
            /\ siResult' = gwOutcome
            /\ UNCHANGED siIdx
       ELSE /\ siPc' = "loop"
            /\ siIdx' = siIdx + 1
            /\ UNCHANGED siResult
    /\ UNCHANGED <<all_models, backend, gwTries, gwAttempts, gwOutcome,
                   limiter, backendLog>>
    /\ UNCHANGED nonRouterVars

RouterIdle ==
    /\ all_models = << >>
    /\ backend = [m \in BackendModels |-> 0]
    /\ siPc = "off"
    /\ siIdx = 0
    /\ fCalls = << >>
    /\ siResult = NoResult
    /\ gwPc = "off"
    /\ gwTries = 0
    /\ gwAttempts = 0
    /\ gwOutcome = NoResult
    /\ limiter = [acquired |-> 0]
    /\ backendLog = << >>

NextRouter ==
    \/ SendInference
    \/ ForModel
    \/ GenerateContent
    \/ FReturned
    \/ FRaised

(***************************************************************************)
(* Iteration records and the solved predicate (dataset_solver.is_solved)   *)
(***************************************************************************)
PublicFields == {"test_passed_public", "test_failed_public", "test_timeout_public"}
PrivateFields == {"test_passed_private", "test_failed_private", "test_timeout_private"}
GenerateFields == {"test_passed_generate", "test_failed_generate", "test_timeout_generate"}
CountFields == PublicFields \cup PrivateFields \cup GenerateFields
RecordFields == CountFields \cup {"solution"}

\* the empty dict {}
EmptyDict == [f \in {} |-> 0]

is_solved_ignoring_timeouts(s) ==
    /\ s["test_failed_private"] = 0 /\ s["test_failed_generate"] = 0
    /\ (s["test_passed_private"] + s["test_passed_generate"]) > 0

is_solved(s) ==
    /\ s["test_failed_private"] = 0 /\ s["test_failed_generate"] = 0
    /\ s["test_timeout_private"] = 0 /\ s["test_timeout_generate"] = 0
    /\ (s["test_passed_private"] + s["test_passed_generate"]) > 0

SolvedStart ==
    /\ solvedIn \in [RecordFields -> 0..MaxCount]
    /\ solvedOut = [called |-> FALSE, value |-> FALSE]

SolvedIdle ==
    /\ solvedIn = EmptyDict
    /\ solvedOut = [called |-> TRUE, value |-> FALSE]

\* is_solved(s) is called on the record
ApplyIsSolved ==
    /\ ~solvedOut.called
    /\ solvedOut' = [called |-> TRUE, value |-> is_solved(solvedIn)]
    /\ UNCHANGED solvedIn
    /\ UNCHANGED nonSolvedVars

NextSolved == ApplyIsSolved

(***************************************************************************)
(* ProblemSolver.solve: the stage pipeline                                 *)
(***************************************************************************)
\* a solution text is a number; 0 is the empty string
EmptyString == 0

\* the steps of the full approach, in the order solve calls them
PipelineOrder ==
    <<"set_configurations", "run_self_reflect", "run_generate_possible_solutions",
      "run_choose_best_solution", "run_generate_ai_tests",
      "run_initial_code_generation", "run_evaluate_public_tests",
      "run_evaluate_all_ai_tests">>

Stages == {PipelineOrder[j] : j \in 2..Len(PipelineOrder)}
Steps == {PipelineOrder[j] : j \in 1..Len(PipelineOrder)}

IndexOf(step) == CHOOSE j \in 1..Len(PipelineOrder) : PipelineOrder[j] = step

\* a bug that drops the test-generation stage
StageAfterSkippingTests(step) ==
    IF step = "run_choose_best_solution" THEN "run_initial_code_generation"
    ELSE IF IndexOf(step) = Len(PipelineOrder) THEN "return"
    ELSE PipelineOrder[IndexOf(step) + 1]

\* the statement that follows a step of solve
StageAfter(step) ==
    IF IndexOf(step) = Len(PipelineOrder) THEN "return"
    ELSE PipelineOrder[IndexOf(step) + 1]

\* the field of the problem dict a step's prompt needs, and the field it adds
BaseFields == {"name", "description"}

Requires(step) ==
    CASE step = "set_configurations" -> {}
      [] step = "run_self_reflect" -> {"description"}
      [] step = "run_generate_possible_solutions" -> {"description", "self_reflection"}
      [] step = "run_choose_best_solution" -> {"description", "s_possible_solutions"}
      [] step = "run_generate_ai_tests" -> {"description", "s_best_solution"}
      [] step = "run_initial_code_generation" -> {"description", "s_best_solution"}
      [] step = "run_evaluate_public_tests" -> {"code_recent_solution"}
      [] step = "run_evaluate_all_ai_tests" -> {"code_recent_solution", "problem_ai_tests"}
      [] step = "run_baseline" -> {"description"}

Produces(step) ==
    CASE step = "set_configurations" -> "iteration"
      [] step = "run_self_reflect" -> "self_reflection"
      [] step = "run_generate_possible_solutions" -> "s_possible_solutions"
      [] step = "run_choose_best_solution" -> "s_best_solution"
      [] step = "run_generate_ai_tests" -> "problem_ai_tests"
      [] step = "run_initial_code_generation" -> "code_recent_solution"
      [] step = "run_evaluate_public_tests" -> "code_recent_solution"
      [] step = "run_evaluate_all_ai_tests" -> "code_recent_solution"
      [] step = "run_baseline" -> "code_recent_solution"

\* the dict a step returns: its field added, the code it generated or fixed
StageOutput(step, problem, fixed) ==
    [fields |-> problem.fields \cup {Produces(step)},
     applied |-> Append(problem.applied, step),
     code |-> IF step \in {"run_initial_code_generation", "run_baseline"} THEN 1
              ELSE IF step \in {"run_evaluate_public_tests", "run_evaluate_all_ai_tests"} /\ fixed
                   THEN problem.code + 1
              ELSE problem.code]

\* `except Exception as e`: the error is logged and "" returned
SolveExceptReraise(e) == [kind |-> "exception", value |-> EmptyString, error |-> e]

SolveExcept(e) == [kind |-> "value", value |-> EmptyString, error |-> e]

NoRaise == [step |-> "none", why |-> "none"]

PipelineStart ==
    /\ use_baseline \in BOOLEAN
    /\ psIteration \in 0..(NumIterations - 1)
    /\ psPc = "idle"
    /\ \E fs \in SUBSET BaseFields :
          psProblem = [fields |-> fs, applied |-> << >>, code |-> EmptyString]
    /\ psLog = << >>
    /\ psRaised = NoRaise
    /\ psResult = NoResult

PipelineIdle ==
    /\ use_baseline = FALSE
    /\ psIteration = 0
    /\ psPc = "off"
    /\ psProblem = [fields |-> {}, applied |-> << >>, code |-> EmptyString]
    /\ psLog = << >>
    /\ psRaised = NoRaise
    /\ psResult = NoResult

\* solve is called: the try block is entered and use_baseline read
Solve ==
    /\ psPc = "idle"
    /\ psPc' = IF use_baseline THEN "run_baseline" ELSE PipelineOrder[1]
    /\ UNCHANGED <<use_baseline, psIteration, psProblem, psLog, psRaised, psResult>>
    /\ UNCHANGED nonPipelineVars

\* one step called with the current problem dict; it returns the dict the next
\* step receives, or raises: rendering its prompt under StrictUndefined fails
\* on a missing field, and its model call fails once every model is exhausted
RunStep(step, next) ==
    /\ psPc = step
    /\ psLog' = Append(psLog, step)
    /\ IF ~(Requires(step) \subseteq psProblem.fields)
       THEN /\ psRaised' = [step |-> step, why |-> "missing_field"]
            /\ psPc' = "except"
            /\ UNCHANGED psProblem
       ELSE \/ /\ step # "set_configurations"
               /\ psRaised' = [step |-> step, why |-> "models_exhausted"]
               /\ psPc' = "except"
               /\ UNCHANGED psProblem
            \/ /\ \E fixed \in BOOLEAN : psProblem' = StageOutput(step, psProblem, fixed)
               /\ psPc' = next
               /\ UNCHANGED psRaised
    /\ UNCHANGED <<use_baseline, psIteration, psResult>>
    /\ UNCHANGED nonPipelineVars

\* a bug that falls through from the baseline into the full approach
RunBaselineThenStages == RunStep("run_baseline", PipelineOrder[1])

\* problem['code_recent_solution'] = await run_baseline(self, problem)
RunBaseline == RunStep("run_baseline", "return")

\* problem = set_configurations(problem, iteration), then the seven stages,
\* each `problem = await run_...(self, problem)`
RunPipelineStep == \E step \in Steps : RunStep(step, StageAfter(step))

\* return problem['code_recent_solution']
SolveReturn ==
    /\ psPc = "return"
    /\ IF "code_recent_solution" \in psProblem.fields
       THEN /\ psResult' = [kind |-> "value", value |-> psProblem.code, error |-> "none"]
            /\ psPc' = "done"
            /\ UNCHANGED psRaised
       ELSE /\ psRaised' = [step |-> "return", why |-> "missing_field"]
            /\ psPc' = "except"
            /\ UNCHANGED psResult
    /\ UNCHANGED <<use_baseline, psIteration, psProblem, psLog>>
    /\ UNCHANGED nonPipelineVars

\* except Exception as e: log, return ""
SolveExceptHandler ==
    /\ psPc = "except"
    /\ psResult' = SolveExcept(psRaised.why)
    /\ psPc' = "done"
    /\ UNCHANGED <<use_baseline, psIteration, psProblem, psLog, psRaised>>
    /\ UNCHANGED nonPipelineVars

NextPipeline ==
    \/ Solve
    \/ RunBaseline
    \/ RunPipelineStep
    \/ SolveReturn
    \/ SolveExceptHandler

(***************************************************************************)
(* SimplifiedSolver.solve_problem over the DatabaseManager tables          *)
(***************************************************************************)
\* the problems handed to solve_problem, after _normalize_problem_format
ProblemInputs ==
    {[name |-> "Factorial", description |-> "n!"],
     [name |-> "Factorial", description |-> "n! mod p"]}

\* the values of SimplifiedSolver.model in use
SolverModels == {"gemini-2.0-flash", "models/gemini-2.0-flash"}

\* the store operation that fails (raises inside its try block) during a call
StoreFaults == {"none", "save_problem", "get_solutions_for_problem"}

\* ---- texts: what solve returns
CodeText(n) == [kind |-> "code", id |-> n]
\* "# Error solving problem\n# ..."
ErrorText == [kind |-> "error_solving", id |-> 0]
\* "\n# Error: Model ... is not available ..."
ModelUnavailableText == [kind |-> "model_unavailable", id |-> 0]
\* "\n# Error: Invalid or expired API key ..."
InvalidKeyText == [kind |-> "invalid_key", id |-> 0]
\* a response or a source text ""
EmptyText == [kind |-> "empty", id |-> 0]

TextLen(t) == IF t.kind = "empty" THEN 0 ELSE 1
\* str.startswith("# Error"): the two fallback messages begin with a newline
StartsWithHashError(t) == t.kind = "error_solving"

\* ---- SimplifiedSolver.solve: what the model calls of one run do.
\* run.raises is the 1-based model call that raises (0: none), run.error the
\* text of its exception, run.test_flags whether the test response contains
\* "fails", "incorrect" or "error" in any letter case.
SolveErrors ==
    {"other", "NOT_FOUND", "NOT_FOUND models/", "API_KEY_INVALID", "API key expired"}

SolveRuns == [raises : 0..4, error : SolveErrors, test_flags : BOOLEAN]

\* the text solve's except block returns for an exception with this text
FallbackMessage(error) ==
    IF error = "NOT_FOUND models/" THEN ModelUnavailableText
    ELSE IF error \in {"API_KEY_INVALID", "API key expired"} THEN InvalidKeyText
    ELSE ErrorText

\* the model calls solve issues, in order
SolveCalls(run) ==
    LET planned == IF run.test_flags THEN <<"analyze", "solve", "test", "refine">>
                   ELSE <<"analyze", "solve", "test">>
    IN IF run.raises = 0 \/ run.raises > Len(planned) THEN planned
       ELSE SubSeq(planned, 1, run.raises)

\* the runs the store is exercised with: one that ends after the test call, one
\* that refines, one whose model call fails, one whose model is not found
StoreRuns ==
    {[raises |-> 0, error |-> "other", test_flags |-> FALSE],
     [raises |-> 2, error |-> "other", test_flags |-> FALSE],
     [raises |-> 1, error |-> "NOT_FOUND models/", test_flags |-> FALSE]}

SolveRaised(run) == run.raises # 0 /\ run.raises <= Len(SolveCalls(run))

\* the text solve returns; n names the text the model generates in this call
SolveText(run, n) ==
    IF SolveRaised(run) THEN FallbackMessage(run.error) ELSE CodeText(n)

\* ---- SimplifiedSolver.solve, call by call.  Responses are character
\* sequences, so that str.lower and the "in" test are computed.
UpperCase ==
    <<"A", "B", "C", "D", "E", "F", "G", "H", "I", "J", "K", "L", "M",
      "N", "O", "P", "Q", "R", "S", "T", "U", "V", "W", "X", "Y", "Z">>

LowerCase ==
    <<"a", "b", "c", "d", "e", "f", "g", "h", "i", "j", "k", "l", "m",
      "n", "o", "p", "q", "r", "s", "t", "u", "v", "w", "x", "y", "z">>

LowerChar(c) ==
    IF \E i \in 1..Len(UpperCase) : UpperCase[i] = c
    THEN LowerCase[CHOOSE i \in 1..Len(UpperCase) : UpperCase[i] = c]
    ELSE c

\* str.lower()
lower(t) == [i \in 1..Len(t) |-> LowerChar(t[i])]

\* word in t
In(word, t) ==
    \E i \in 1..(Len(t) - Len(word) + 1) : SubSeq(t, i, i + Len(word) - 1) = word

\* the responses the model gives to the test prompt
TestResponses ==
    {<< >>,
     <<"o", "k">>,
     <<"f", "a", "i", "l", "e", "d">>,
     <<"F", "a", "i", "l", "s">>,
     <<"I", "N", "C", "O", "R", "R", "E", "C", "T">>,
     <<"n", "o", " ", "e", "r", "r", "o", "r">>}

\* a refine condition that looks at the response as it was written
NeedsRefineCaseSensitive(test_results) ==
    \/ In(<<"f", "a", "i", "l", "s">>, test_results)
    \/ In(<<"i", "n", "c", "o", "r", "r", "e", "c", "t">>, test_results)
    \/ In(<<"e", "r", "r", "o", "r">>, test_results)

\* the condition of step 4
NeedsRefine(test_results) ==
    \/ In(<<"f", "a", "i", "l", "s">>, lower(test_results))
    \/ In(<<"i", "n", "c", "o", "r", "r", "e", "c", "t">>, lower(test_results))
    \/ In(<<"e", "r", "r", "o", "r">>, lower(test_results))

StepRuns == [raises : 0..4, error : SolveErrors, test_results : TestResponses]

\* the responses to the solve prompt and to the refine prompt
SolutionText == CodeText(1)
RefinedText == CodeText(2)

\* what follows a prompt whose model call returned
AfterPrompt(step, test_results) ==
    CASE step = "analyze" -> "solve"
      [] step = "solve" -> "test"
      [] step = "test" -> IF NeedsRefine(test_results) THEN "refine" ELSE "return"
      [] OTHER -> "return"

\* the value of the return statement reached after this prompt
ReturnedAfter(step) == IF step = "refine" THEN RefinedText ELSE SolutionText

\* an except block that lets the exception go on
StepExceptReraise(error) == [raised |-> TRUE, text |-> EmptyText]

\* except Exception as e: ... return a fallback message
StepExcept(error) == [raised |-> FALSE, text |-> FallbackMessage(error)]

StepStart ==
    /\ svRun \in StepRuns
    /\ svPc = "call"
    /\ svStep = "analyze"
    /\ svCalls = << >>
    /\ svReturned = 0
    /\ svResult = EmptyText
    /\ svRaised = FALSE

StepIdle ==
    /\ svRun = [raises |-> 0, error |-> "other", test_results |-> << >>]
    /\ svPc = "off"
    /\ svStep = "analyze"
    /\ svCalls = << >>
    /\ svReturned = 0
    /\ svResult = EmptyText
    /\ svRaised = FALSE

\* _run_prompt: the prompt is rendered and the model call issued
_run_prompt ==
    /\ svPc = "call"
    /\ svCalls' = Append(svCalls, svStep)
    /\ svPc' = "await"
    /\ UNCHANGED <<svRun, svStep, svReturned, svResult, svRaised>>
    /\ UNCHANGED nonStepVars

\* the awaited model call returns its response; solve goes on to its next
\* await or to its return statement
PromptReturns ==
    /\ svPc = "await"
    /\ Len(svCalls) # svRun.raises
    /\ svReturned' = svReturned + 1
    /\ LET next == AfterPrompt(svStep, svRun.test_results)
       IN IF next = "return"
          THEN /\ svResult' = ReturnedAfter(svStep)
               /\ svPc' = "done"
               /\ UNCHANGED svStep
          ELSE /\ svStep' = next
               /\ svPc' = "call"
               /\ UNCHANGED svResult
    /\ UNCHANGED <<svRun, svCalls, svRaised>>
    /\ UNCHANGED nonStepVars

\* the awaited model call raises; the except block of solve runs
PromptRaises ==
    /\ svPc = "await"
    /\ Len(svCalls) = svRun.raises
    /\ LET handled == StepExcept(svRun.error)
       IN /\ svRaised' = handled.raised
          /\ svResult' = handled.text
    /\ svPc' = "done"
    /\ UNCHANGED <<svRun, svStep, svCalls, svReturned>>
    /\ UNCHANGED nonStepVars

NextStep ==
    \/ _run_prompt
    \/ PromptReturns
    \/ PromptRaises

\* ---- DatabaseManager
\* a lookup that matches on the name alone
ExistingProblemByName(tbl, problem) ==
    {j \in 1..Len(tbl) : tbl[j].name = problem.name}

\* SELECT id FROM problems WHERE name = ? AND description = ?  (fetchone)
ExistingProblem(tbl, problem) ==
    {j \in 1..Len(tbl) : tbl[j].name = problem.name /\ tbl[j].description = problem.description}

\* save_problem: the id returned and the table afterwards
save_problem(tbl, problem, fails) ==
    IF fails THEN [id |-> -1, table |-> tbl]
    ELSE IF ExistingProblem(tbl, problem) # {}
         THEN [id |-> tbl[CHOOSE j \in ExistingProblem(tbl, problem) :
                             \A k \in ExistingProblem(tbl, problem) : j <= k].id,
               table |-> tbl]
         ELSE [id |-> Len(tbl) + 1,
               table |-> Append(tbl, [id |-> Len(tbl) + 1, name |-> problem.name,
                                      description |-> problem.description])]

\* SELECT * FROM solutions WHERE problem_id = ? ORDER BY created_at DESC:
\* rows of one second come out in rowid order
RECURSIVE SortedByCreatedAtDesc(_, _)
SortedByCreatedAtDesc(rows, t) ==
    IF t < 0 THEN << >>
    ELSE SelectSeq(rows, LAMBDA r : r.created_at = t) \o SortedByCreatedAtDesc(rows, t - 1)

get_solutions_for_problem(tbl, problem_id, now, fails) ==
    IF fails THEN << >>
    ELSE SortedByCreatedAtDesc(SelectSeq(tbl, LAMBDA r : r.problem_id = problem_id), now)

\* the cache test of solve_problem, on one row
CacheMatchAnyOutcome(row, model) == row.model_id = model

CacheMatch(row, model) == row.model_id = model /\ row.success

\* the first row of the query that passes the cache test, as a set (empty: none)
FirstCached(rows, model) ==
    LET hits == {j \in 1..Len(rows) : CacheMatch(rows[j], model)}
    IN IF hits = {} THEN {}
       ELSE {rows[CHOOSE j \in hits : \A k \in hits : j <= k]}

\* success = len(solution) > 0 and not solution.startswith("# Error")
SolutionSuccess(text) == TextLen(text) > 0 /\ ~StartsWithHashError(text)

\* a store that keeps one row per (problem, model), overwriting it
save_solution_upsert(tbl, mdl, problem_id, model_id, code, success, now, fails) ==
    LET row == [id |-> Len(tbl) + 1, problem_id |-> problem_id, model_id |-> model_id,
                code |-> code, success |-> success, created_at |-> now]
        old == {j \in 1..Len(tbl) :
                   tbl[j].problem_id = problem_id /\ tbl[j].model_id = model_id}
    IN [solutions |-> IF old = {} THEN Append(tbl, row)
                      ELSE [j \in 1..Len(tbl) |->
                               IF j \in old THEN [row EXCEPT !.id = j] ELSE tbl[j]],
        models |-> [mdl EXCEPT ![model_id] =
                       [present |-> TRUE,
                        usage_count |-> (IF @.present THEN @.usage_count ELSE 0) + 1,
                        has_info |-> @.present /\ @.has_info]]]

\* save_solution: the solutions and models tables afterwards
save_solution(tbl, mdl, problem_id, model_id, code, success, now, fails) ==
    IF fails THEN [solutions |-> tbl, models |-> mdl]
    ELSE [solutions |-> Append(tbl, [id |-> Len(tbl) + 1, problem_id |-> problem_id,
                                     model_id |-> model_id, code |-> code,
                                     success |-> success, created_at |-> now]),
          models |-> [mdl EXCEPT ![model_id] =
                         [present |-> TRUE,
                          usage_count |-> (IF @.present THEN @.usage_count ELSE 0) + 1,
                          has_info |-> @.present /\ @.has_info]]]

\* save_model_info: INSERT OR REPLACE writes a fresh row, usage_count at its
\* default
save_model_info(mdl, info_id) ==
    [mdl EXCEPT ![info_id] = [present |-> TRUE, usage_count |-> 0, has_info |-> TRUE]]

\* ModelManager.get_model_by_id: the API names models "models/<id>"; none is
\* found when the model list cannot be had
ModelInfoIds == {"none", "models/gemini-2.0-flash"}

ModelKeys == SolverModels

NoCall ==
    [problem |-> [name |-> "", description |-> ""], model |-> "", use_cache |-> FALSE,
     store_failed |-> FALSE, rows_before |-> 0, from_cache |-> FALSE,
     after_hit |-> FALSE, model_calls |-> 0, result |-> EmptyText]

EmptyModels ==
    [m \in ModelKeys |-> [present |-> FALSE, usage_count |-> 0, has_info |-> FALSE]]

\* what one earlier solve_problem call of an earlier process left in a new
\* database file: the problem and a solution of it
AfterOneSolve(problem, model) ==
    LET saved == save_problem(<< >>, problem, FALSE)
        text == CodeText(0)
        stored == save_solution(<< >>, EmptyModels, saved.id, model, text,
                                SolutionSuccess(text), 0, FALSE)
    IN [problems |-> saved.table, solutions |-> stored.solutions, models |-> stored.models]

\* the database file is new, or was left by one earlier call
StoreTables ==
    /\ \/ /\ problems = << >>
          /\ solutions = << >>
          /\ models = EmptyModels
       \/ \E model \in SolverModels :
             LET db == AfterOneSolve([name |-> "Factorial", description |-> "n!"], model)
             IN /\ problems = db.problems
                /\ solutions = db.solutions
                /\ models = db.models
    /\ clock = 0
    /\ callNo = 0
    /\ lastCall = NoCall
    /\ no_cache = FALSE

\* a program that holds a solver whose ModelManager cannot list the models
StoreStart == StoreTables /\ model_list_id = "none"

\* solve.py: the model list may be had, and then names the models "models/<id>"
MainStart == StoreTables /\ model_list_id \in ModelInfoIds

StoreIdle ==
    /\ problems = << >>
    /\ solutions = << >>
    /\ models = EmptyModels
    /\ clock = 0
    /\ callNo = -1
    /\ lastCall = NoCall
    /\ model_list_id = "none"
    /\ no_cache = FALSE

\* a second passes
Tick ==
    /\ callNo >= 0
    /\ clock < MaxClock
    /\ clock' = clock + 1
    /\ UNCHANGED <<problems, solutions, models, callNo, lastCall, model_list_id, no_cache>>
    /\ UNCHANGED nonStoreVars

\* whether the call before this one was answered from the cache for the same
\* problem and model
AfterHit(problem, model) ==
    lastCall.from_cache /\ lastCall.problem = problem /\ lastCall.model = model

\* solver.solve_problem(problem) on a solver built with (model, use_cache)
SolveProblem(problem, model, use_cache, fault, run) ==
    /\ callNo >= 0
    /\ callNo < MaxCalls
    /\ callNo' = callNo + 1
    /\ LET saved == save_problem(problems, problem, fault = "save_problem")
           problem_id == saved.id
           rows == IF use_cache /\ problem_id > 0
                   THEN get_solutions_for_problem(solutions, problem_id, clock,
                                                  fault = "get_solutions_for_problem")
                   ELSE << >>
           cached == FirstCached(rows, model)
       IN /\ problems' = saved.table
          /\ IF cached # {}
             THEN \* return solution["code"]
                  /\ lastCall' = [problem |-> problem, model |-> model,
                                  use_cache |-> use_cache,
                                  store_failed |-> (fault # "none"),
                                  rows_before |-> Len(solutions), from_cache |-> TRUE,
                                  after_hit |-> AfterHit(problem, model),
                                  model_calls |-> 0,
                                  result |-> (CHOOSE r \in cached : TRUE).code]
                  /\ UNCHANGED <<solutions, models>>
             ELSE \* solution = asyncio.run(self.solve(normalized_problem))
                  LET text == SolveText(run, callNo + 1)
                      stored == IF problem_id > 0
                                THEN save_solution(solutions, models, problem_id, model, text,
                                                   SolutionSuccess(text), clock,
                                                   fault = "save_solution")
                                ELSE [solutions |-> solutions, models |-> models]
                  IN /\ lastCall' = [problem |-> problem, model |-> model,
                                     use_cache |-> use_cache,
                                     store_failed |-> (fault # "none"),
                                     rows_before |-> Len(solutions), from_cache |-> FALSE,
                                     after_hit |-> AfterHit(problem, model),
                                     model_calls |-> Len(SolveCalls(run)),
                                     result |-> text]
                     /\ solutions' = stored.solutions
                     /\ models' = IF problem_id > 0 /\ model_list_id # "none"
                                  THEN save_model_info(stored.models, model_list_id)
                                  ELSE stored.models
    /\ UNCHANGED <<clock, model_list_id>>
    /\ UNCHANGED nonStoreVars

SolveProblemCall ==
    \E problem \in ProblemInputs, model \in SolverModels, use_cache \in BOOLEAN,
       fault \in StoreFaults, run \in StoreRuns :
        /\ SolveProblem(problem, model, use_cache, fault, run)
        /\ no_cache' = FALSE

\* SimplifiedSolver.__init__'s default for use_cache
DefaultUseCache == TRUE

\* solve.py main: the solver is built from args.model and args.db_path only;
\* args.no_cache is printed
SolveMain ==
    \E problem \in ProblemInputs, model \in SolverModels, flag \in BOOLEAN,
       fault \in StoreFaults, run \in StoreRuns :
        /\ SolveProblem(problem, model, DefaultUseCache, fault, run)
        /\ no_cache' = flag

NextStore ==
    \/ Tick
    \/ SolveProblemCall

\* solve.py run again and again on one database file
NextMain ==
    \/ Tick
    \/ SolveMain

(***************************************************************************)
(* evaluate_dataset.evaluate_dataset_solution                              *)
(***************************************************************************)
\* an iteration record as solve_dataset writes it, by its private and
\* generated counts (passed, failed, timeout)
FullRecord(pp, fp, tp, pg, fg, tg) ==
    [f \in RecordFields |->
        CASE f = "solution" -> 1
          [] f = "test_passed_private" -> pp
          [] f = "test_failed_private" -> fp
          [] f = "test_timeout_private" -> tp
          [] f = "test_passed_generate" -> pg
          [] f = "test_failed_generate" -> fg
          [] f = "test_timeout_generate" -> tg
          [] OTHER -> 0]

\* a record of a database written before timeouts were counted
OldRecord(pp, fp, pg, fg) ==
    LET full == FullRecord(pp, fp, 0, pg, fg, 0)
    IN [f \in RecordFields \ {"test_timeout_private", "test_timeout_generate",
                              "test_timeout_public"} |-> full[f]]

\* the iteration records found in a solution database
EvalRecords ==
    {EmptyDict,
     FullRecord(1, 0, 0, 1, 0, 0),
     FullRecord(1, 1, 0, 0, 0, 0),
     FullRecord(1, 0, 0, 1, 0, 1),
     FullRecord(0, 0, 0, 0, 0, 0),
     OldRecord(0, 0, 1, 0),
     OldRecord(1, 0, 0, 1)}

\* solution.values(): the records of one problem, iteration by iteration
EvalEntries == UNION {[1..n -> EvalRecords] : n \in 0..MaxRecords}

\* what one round of the loop meets: the problem cannot be fetched, or it is
\* not valid (the records are not read in either case), or its records
EvalRounds ==
    {[valid |-> FALSE, raised |-> TRUE, solution |-> << >>],
     [valid |-> FALSE, raised |-> FALSE, solution |-> << >>]}
    \cup {[valid |-> TRUE, raised |-> FALSE, solution |-> e] : e \in EvalEntries}

HoldsSolution(v) == "solution" \in DOMAIN v

\* v_iter = [v for v in solution.values() if (v is not None and 'solution' in v)]
v_iter(solution) == SelectSeq(solution, HoldsSolution)

\* a scan that takes every record's timeouts as 0
TimeoutOfIgnored(v, field) == 0

\* the timeout counts read from v, 0 when v has no test_timeout_generate
TimeoutOf(v, field) == IF "test_timeout_generate" \in DOMAIN v THEN v[field] ELSE 0

\* the condition under which a record makes the problem passed
RecordPasses(v) ==
    /\ (v["test_failed_generate"] + TimeoutOf(v, "test_timeout_generate")
        + v["test_failed_private"] + TimeoutOf(v, "test_timeout_private")) = 0
    /\ (v["test_passed_generate"] + v["test_passed_private"]) > 0

\* the loop over v_iter from record i on, with the current passed_current
RECURSIVE ScanIterations(_, _, _)
ScanIterations(vs, i, passed_current) ==
    IF i > Len(vs) THEN passed_current
    ELSE IF DOMAIN vs[i] = {} THEN ScanIterations(vs, i + 1, passed_current)
    ELSE IF RecordPasses(vs[i]) THEN 1
    ELSE ScanIterations(vs, i + 1, 0)

NoEntry == [valid |-> FALSE, raised |-> FALSE, solution |-> << >>]

EvalStart ==
    /\ edPc = "loop"
    /\ edIdx = 0
    /\ edEntry = NoEntry
    /\ total_passed = 0
    /\ total_failed = 0

EvalIdle ==
    /\ edPc = "off"
    /\ edIdx = 0
    /\ edEntry = NoEntry
    /\ total_passed = 0
    /\ total_failed = 0

\* one round of the loop over the database's keys
EvaluateProblem ==
    /\ edPc = "loop"
    /\ edIdx < NumProblems
    /\ \E round \in EvalRounds :
          LET passed_current == IF round.raised \/ ~round.valid THEN -1
                                ELSE ScanIterations(v_iter(round.solution), 1, -1)
          IN /\ edEntry' = round
             /\ total_passed' = IF passed_current = 1 THEN total_passed + 1
                                ELSE total_passed
             /\ total_failed' = IF passed_current = 0 THEN total_failed + 1
                                ELSE total_failed
    /\ edIdx' = edIdx + 1
    /\ UNCHANGED edPc
    /\ UNCHANGED nonEvalVars

\* the keys are exhausted: the totals are printed
EvaluateFinish ==
    /\ edPc = "loop"
    /\ edPc' = "done"
    /\ UNCHANGED <<edIdx, edEntry, total_passed, total_failed>>
    /\ UNCHANGED nonEvalVars

NextEval ==
    \/ EvaluateProblem
    \/ EvaluateFinish

(***************************************************************************)
(* dataset_solver.solve_dataset                                            *)
(***************************************************************************)
ProblemNumbers == 0..(NumProblems - 1)
Iterations == 0..(NumIterations - 1)

\* Dict keys.  A JSON object's keys are text; a key text is written here as
\* the number it spells.  In memory a key is the str "n" or the int n.
StrKey(n) == [t |-> "str", n |-> n]
IntKey(n) == [t |-> "int", n |-> n]

\* json.dump writes every key as text: the int 3 and the str "3" give "3"
JsonKeyText(key) == key.n

json_dump(db) ==
    [i \in 1..Len(db) |-> [key |-> JsonKeyText(db[i].key), entry |-> db[i].entry]]

KeyTexts(members) == {members[i].key : i \in 1..Len(members)}

\* json.load keeps, for a key text that occurs twice, the last value
LastValue(members, text) ==
    members[CHOOSE i \in 1..Len(members) :
               /\ members[i].key = text
               /\ \A j \in (i + 1)..Len(members) : members[j].key # text].entry

RECURSIVE SortedByInt(_)
SortedByInt(texts) ==
    IF texts = {} THEN << >>
    ELSE LET m == CHOOSE x \in texts : \A y \in texts : x <= y
         IN <<m>> \o SortedByInt(texts \ {m})

\* json.load, then OrderedDict(sorted(items, key=lambda x: int(x[0])))
json_load_sorted(members) ==
    LET keys == SortedByInt(KeyTexts(members))
    IN [i \in 1..Len(keys) |->
           [key |-> StrKey(keys[i]), entry |-> LastValue(members, keys[i])]]

HasKey(db, key) == \E i \in 1..Len(db) : db[i].key = key

\* db.get(key, default)
DictGet(db, key, default) ==
    IF HasKey(db, key)
    THEN db[CHOOSE i \in 1..Len(db) : db[i].key = key].entry
    ELSE default

\* db[key] = value
DictSet(db, key, value) ==
    IF HasKey(db, key)
    THEN [i \in 1..Len(db) |->
             IF db[i].key = key THEN [key |-> key, entry |-> value] ELSE db[i]]
    ELSE Append(db, [key |-> key, entry |-> value])

\* An entry holds the records of iteration_0, iteration_1, ... in that order.
\* entry.get(f'iteration_{k}', {})
EntryGet(entry, k) == IF (k + 1) \in 1..Len(entry) THEN entry[k + 1] ELSE EmptyDict

\* database[split_name].get(str(problem_number), {}).get(it_str, {})
prev_record(db, p, k) == EntryGet(DictGet(db, StrKey(p), << >>), k)

\* not ((prev == {}) or (prev is None))
AlreadyRan(prev) == DOMAIN prev # {}

\* what the solver returns: code, or "" when it failed
SolverSolutions == {"", "code"}

Passed == [passed |-> 1, failed |-> 0, timeout |-> 0]
Failed == [passed |-> 0, failed |-> 1, timeout |-> 0]

\* the three evaluate_solution_on_subset results of one iteration
HarnessRuns ==
    {[public |-> Passed, private |-> Passed, generate |-> Passed],
     [public |-> Passed, private |-> Failed, generate |-> Passed]}

IterationRecord(solution, run) ==
    [solution |-> solution,
     test_passed_private |-> run.private.passed,
     test_failed_private |-> run.private.failed,
     test_timeout_private |-> run.private.timeout,
     test_passed_generate |-> run.generate.passed,
     test_failed_generate |-> run.generate.failed,
     test_timeout_generate |-> run.generate.timeout,
     test_passed_public |-> run.public.passed,
     test_failed_public |-> run.public.failed,
     test_timeout_public |-> run.public.timeout]

\* line 71: if is_solved(prev_iter): break
PrevIterEndsLoop(prev_iter) == is_solved(prev_iter)

FreshNeverEndsLoop(record) == is_solved(record) /\ ~is_solved(record)

\* line 111: if is_solved(problem_database[problem_number][it_str]): break
FreshEndsLoop(record) == is_solved(record)

\* line 116: the key the problem's entry is stored under
WriteKey(p) == IntKey(p)

NoFile == [exists |-> FALSE, members |-> << >>]

DatasetStart ==
    /\ dataset \in [ProblemNumbers -> BOOLEAN]
    /\ dsFile = NoFile
    /\ database = << >>
    /\ dsLoaded = << >>
    /\ loadFailed = FALSE
    /\ dsRun = "first"
    /\ dsPc = "load"
    /\ problem_number = 0
    /\ iteration = 0
    /\ problem_database = << >>
    /\ solverCalls = {}
    /\ harnessCalls = {}
    /\ emptySolutions = 0

DatasetIdle ==
    /\ dataset = [p \in ProblemNumbers |-> TRUE]
    /\ dsFile = NoFile
    /\ database = << >>
    /\ dsLoaded = << >>
    /\ loadFailed = FALSE
    /\ dsRun = "first"
    /\ dsPc = "off"
    /\ problem_number = 0
    /\ iteration = 0
    /\ problem_database = << >>
    /\ solverCalls = {}
    /\ harnessCalls = {}
    /\ emptySolutions = 0

LoadExceptReraise == [raised |-> TRUE, database |-> << >>]

\* lines 29-31: `except:` prints and sets database = {split_name: {}}
LoadExcept == [raised |-> FALSE, database |-> << >>]

\* lines 24-31: load the previous solution database if there is one; open or
\* json.load may raise (no file, unreadable file, text that is not JSON)
LoadDatabase ==
    /\ dsPc = "load"
    /\ \E fails \in (IF dsFile.exists THEN BOOLEAN ELSE {TRUE}) :
          /\ loadFailed' = fails
          /\ IF fails
             THEN /\ database' = LoadExcept.database
                  /\ dsPc' = IF LoadExcept.raised THEN "raised" ELSE "problem"
             ELSE /\ database' = json_load_sorted(dsFile.members)
                  /\ dsPc' = "problem"
    /\ dsLoaded' = database'
    /\ problem_number' = 0
    /\ UNCHANGED <<dataset, dsFile, dsRun, iteration, problem_database,
                   solverCalls, harnessCalls, emptySolutions>>
    /\ UNCHANGED nonDatasetVars

\* lines 39-43: the last iteration has a record: "already ran"
ProblemAlreadyRan ==
    /\ dsPc = "problem"
    /\ problem_number < NumProblems
    /\ AlreadyRan(prev_record(database, problem_number, NumIterations - 1))
    /\ problem_number' = problem_number + 1
    /\ UNCHANGED <<dataset, dsFile, database, dsLoaded, loadFailed, dsRun, dsPc, iteration,
                   problem_database, solverCalls, harnessCalls, emptySolutions>>
    /\ UNCHANGED nonDatasetVars

\* lines 46-49: the problem is not valid
ProblemNotValid ==
    /\ dsPc = "problem"
    /\ problem_number < NumProblems
    /\ ~AlreadyRan(prev_record(database, problem_number, NumIterations - 1))
    /\ ~dataset[problem_number]
    /\ problem_number' = problem_number + 1
    /\ UNCHANGED <<dataset, dsFile, database, dsLoaded, loadFailed, dsRun, dsPc, iteration,
                   problem_database, solverCalls, harnessCalls, emptySolutions>>
    /\ UNCHANGED nonDatasetVars

\* lines 51-62: problem_database = {problem_number: {}}, enter the iteration loop
StartProblem ==
    /\ dsPc = "problem"
    /\ problem_number < NumProblems
    /\ ~AlreadyRan(prev_record(database, problem_number, NumIterations - 1))
    /\ dataset[problem_number]
    /\ problem_database' = << >>
    /\ iteration' = 0
    /\ dsPc' = "iteration"
    /\ UNCHANGED <<dataset, dsFile, database, dsLoaded, loadFailed, dsRun, problem_number,
                   solverCalls, harnessCalls, emptySolutions>>
    /\ UNCHANGED nonDatasetVars

\* lines 63-74: the iteration already ran: take its record
ReusePrevIter ==
    /\ dsPc = "iteration"
    /\ iteration < NumIterations
    /\ LET prev_iter == prev_record(database, problem_number, iteration)
       IN /\ AlreadyRan(prev_iter)
          /\ problem_database' = Append(problem_database, prev_iter)
          /\ IF PrevIterEndsLoop(prev_iter)
             THEN dsPc' = "write" /\ UNCHANGED iteration
             ELSE iteration' = iteration + 1 /\ UNCHANGED dsPc
    /\ UNCHANGED <<dataset, dsFile, database, dsLoaded, loadFailed, dsRun, problem_number,
                   solverCalls, harnessCalls, emptySolutions>>
    /\ UNCHANGED nonDatasetVars

\* lines 63-82: the solver returns no solution: the record stays {}
SolveIterationEmpty ==
    /\ dsPc = "iteration"
    /\ iteration < NumIterations
    /\ ~AlreadyRan(prev_record(database, problem_number, iteration))
    /\ emptySolutions < MaxEmpty
    /\ emptySolutions' = emptySolutions + 1
    /\ solverCalls' = solverCalls \cup {<<problem_number, iteration>>}
    /\ problem_database' = Append(problem_database, EmptyDict)
    /\ iteration' = iteration + 1
    /\ UNCHANGED <<dataset, dsFile, database, dsLoaded, loadFailed, dsRun, dsPc, problem_number,
                   harnessCalls>>
    /\ UNCHANGED nonDatasetVars

\* lines 63-115: the solver returns code, the harness runs it on the three sets
SolveIterationEvaluate ==
    /\ dsPc = "iteration"
    /\ iteration < NumIterations
    /\ ~AlreadyRan(prev_record(database, problem_number, iteration))
    /\ \E solution \in SolverSolutions \ {""}, run \in HarnessRuns :
          LET record == IterationRecord(solution, run)
          IN /\ problem_database' = Append(problem_database, record)
             /\ IF FreshEndsLoop(record)
                THEN dsPc' = "write" /\ UNCHANGED iteration
                ELSE iteration' = iteration + 1 /\ UNCHANGED dsPc
    /\ solverCalls' = solverCalls \cup {<<problem_number, iteration>>}
    /\ harnessCalls' = harnessCalls \cup {<<problem_number, iteration>>}
    /\ UNCHANGED <<dataset, dsFile, database, dsLoaded, loadFailed, dsRun, problem_number,
                   emptySolutions>>
    /\ UNCHANGED nonDatasetVars

\* lines 46-57: get_problem_by_index, or a lookup in the problem it returned
\* (problem['name']), raises; nothing in the loop catches it
FetchRaises ==
    /\ dsPc = "problem"
    /\ problem_number < NumProblems
    /\ ~AlreadyRan(prev_record(database, problem_number, NumIterations - 1))
    /\ dsPc' = "raised"
    /\ UNCHANGED <<dataset, dsFile, database, dsLoaded, loadFailed, dsRun, problem_number,
                   iteration, problem_database, solverCalls, harnessCalls,
                   emptySolutions>>
    /\ UNCHANGED nonDatasetVars

\* lines 77-93: the solver, or the harness run on its solution, raises;
\* nothing in the loop catches it
IterationRaises ==
    /\ dsPc = "iteration"
    /\ iteration < NumIterations
    /\ ~AlreadyRan(prev_record(database, problem_number, iteration))
    /\ solverCalls' = solverCalls \cup {<<problem_number, iteration>>}
    /\ \E evaluating \in BOOLEAN :
          harnessCalls' = IF evaluating
                          THEN harnessCalls \cup {<<problem_number, iteration>>}
                          ELSE harnessCalls
    /\ dsPc' = "raised"
    /\ UNCHANGED <<dataset, dsFile, database, dsLoaded, loadFailed, dsRun, problem_number,
                   iteration, problem_database, emptySolutions>>
    /\ UNCHANGED nonDatasetVars

\* lines 116-119: store the problem's entry and write the file
WriteProblem ==
    /\ \/ dsPc = "write"
       \/ dsPc = "iteration" /\ iteration = NumIterations
    /\ database' = DictSet(database, WriteKey(problem_number), problem_database)
    /\ dsFile' = [exists |-> TRUE, members |-> json_dump(database')]
    /\ problem_number' = problem_number + 1
    /\ dsPc' = "problem"
    /\ UNCHANGED <<dataset, dsLoaded, loadFailed, dsRun, iteration, problem_database,
                   solverCalls, harnessCalls, emptySolutions>>
    /\ UNCHANGED nonDatasetVars

\* line 34: range(0, num_problems) is exhausted
FinishRun ==
    /\ dsPc = "problem"
    /\ problem_number = NumProblems
    /\ dsPc' = "finished"
    /\ UNCHANGED <<dataset, dsFile, database, dsLoaded, loadFailed, dsRun, problem_number,
                   iteration, problem_database, solverCalls, harnessCalls,
                   emptySolutions>>
    /\ UNCHANGED nonDatasetVars

\* solve_dataset is called again on the file the first call left, whether
\* that call returned or raised
CallAgain ==
    /\ dsPc \in {"finished", "raised"}
    /\ dsRun = "first"
    /\ dsRun' = "resume"
    /\ dsPc' = "load"
    /\ database' = << >>
    /\ dsLoaded' = << >>
    /\ loadFailed' = FALSE
    /\ problem_number' = 0
    /\ iteration' = 0
    /\ problem_database' = << >>
    /\ solverCalls' = {}
    /\ harnessCalls' = {}
    /\ emptySolutions' = 0
    /\ UNCHANGED <<dataset, dsFile>>
    /\ UNCHANGED nonDatasetVars

NextDataset ==
    \/ LoadDatabase
    \/ ProblemAlreadyRan
    \/ ProblemNotValid
    \/ StartProblem
    \/ ReusePrevIter
    \/ SolveIterationEmpty
    \/ SolveIterationEvaluate
    \/ FetchRaises
    \/ IterationRaises
    \/ WriteProblem
    \/ FinishRun
    \/ CallAgain

(***************************************************************************)
(* The entry points that accept a test batch                               *)
(***************************************************************************)
TestLists == UNION {[1..n -> {"case"}] : n \in 0..MaxTests}

BatchEntries ==
    {"solve_problem_dict", "solve_problem_fields", "cli", "web", "solve_user_problem"}

Shorter(a, b) == IF Len(a) <= Len(b) THEN Len(a) ELSE Len(b)

\* [{"input": inp, "output": out} for inp, out in zip(inputs, outputs)]
Zip(inputs, outputs) ==
    [j \in 1..Shorter(inputs, outputs) |-> [input |-> inputs[j], output |-> outputs[j]]]

\* SimplifiedSolver._normalize_problem_format on a problem that carries its
\* tests as public_tests = {"input": ..., "output": ...} ("dict"), as
\* test_inputs / test_outputs ("fields"), or as a list of cases ("list")
_normalize_problem_format(form, inputs, outputs) ==
    CASE form = "list" -> [raised |-> FALSE, public_tests |-> Zip(inputs, outputs)]
      [] form = "dict" ->
            IF Len(inputs) # Len(outputs)
            THEN [raised |-> TRUE, public_tests |-> << >>]
            ELSE [raised |-> FALSE, public_tests |-> Zip(inputs, outputs)]
      [] form = "fields" ->
            \* if test_inputs and test_outputs: both lists are non-empty
            IF Len(inputs) # 0 /\ Len(outputs) # 0
            THEN IF Len(inputs) # Len(outputs)
                 THEN [raised |-> TRUE, public_tests |-> << >>]
                 ELSE [raised |-> FALSE, public_tests |-> Zip(inputs, outputs)]
            ELSE [raised |-> FALSE, public_tests |-> << >>]

Rejected(how) ==
    [status |-> how, rejected |-> TRUE, solver_called |-> FALSE, evaluated |-> FALSE]

NoOutcome ==
    [status |-> "none", rejected |-> FALSE, solver_called |-> FALSE, evaluated |-> FALSE]

\* SimplifiedSolver.solve_problem: normalise, then the store and the pipeline
SimplifiedSolveProblem(form, inputs, outputs) ==
    IF _normalize_problem_format(form, inputs, outputs).raised
    THEN Rejected("ValueError")
    ELSE [status |-> "returned", rejected |-> FALSE, solver_called |-> TRUE,
          evaluated |-> FALSE]

\* solve_user_problem: create_problem_json, ProblemSolver().solve_problem,
\* evaluate_solution_on_subset('public_tests', ...)
solve_user_problem(inputs, outputs) ==
    [status |-> "returned", rejected |-> FALSE, solver_called |-> TRUE,
     evaluated |-> TRUE]

BatchStart ==
    /\ batchEntry \in BatchEntries
    /\ test_inputs \in TestLists
    /\ test_outputs \in TestLists
    \* argparse nargs='+': each list has at least one element
    /\ batchEntry = "cli" => (Len(test_inputs) >= 1 /\ Len(test_outputs) >= 1)
    /\ has_description \in BOOLEAN
    /\ batchPc = "call"
    /\ batchOutcome = NoOutcome

BatchIdle ==
    /\ batchEntry = "none"
    /\ test_inputs = << >>
    /\ test_outputs = << >>
    /\ has_description = FALSE
    /\ batchPc = "off"
    /\ batchOutcome = NoOutcome

\* solver.solve_problem(problem) with the tests in dict form or in the
\* test_inputs / test_outputs fields
SolveProblemEntry ==
    /\ batchPc = "call"
    /\ batchEntry \in {"solve_problem_dict", "solve_problem_fields"}
    /\ batchOutcome' =
          SimplifiedSolveProblem(IF batchEntry = "solve_problem_dict" THEN "dict"
                                 ELSE "fields", test_inputs, test_outputs)
    /\ batchPc' = "done"
    /\ UNCHANGED <<batchEntry, test_inputs, test_outputs, has_description>>
    /\ UNCHANGED nonBatchVars

\* python -m alpha_codium.cli.solve_user_problem --test_inputs ... --test_outputs ...
CliMain ==
    /\ batchPc = "call"
    /\ batchEntry = "cli"
    /\ batchOutcome' = IF Len(test_inputs) # Len(test_outputs)
                       THEN Rejected("ValueError")
                       ELSE solve_user_problem(test_inputs, test_outputs)
    /\ batchPc' = "done"
    /\ UNCHANGED <<batchEntry, test_inputs, test_outputs, has_description>>
    /\ UNCHANGED nonBatchVars

\* POST /solve
WebSolve ==
    /\ batchPc = "call"
    /\ batchEntry = "web"
    /\ batchOutcome' =
          IF ~has_description THEN Rejected("400")
          ELSE IF Len(test_inputs) # Len(test_outputs) THEN Rejected("400")
          ELSE IF Len(test_inputs) = 0 THEN Rejected("400")
          ELSE SimplifiedSolveProblem("list", test_inputs, test_outputs)
    /\ batchPc' = "done"
    /\ UNCHANGED <<batchEntry, test_inputs, test_outputs, has_description>>
    /\ UNCHANGED nonBatchVars

\* solve_user_problem(problem_description, test_inputs, test_outputs) called
\* as a function
SolveUserProblem ==
    /\ batchPc = "call"
    /\ batchEntry = "solve_user_problem"
    /\ batchOutcome' = solve_user_problem(test_inputs, test_outputs)
    /\ batchPc' = "done"
    /\ UNCHANGED <<batchEntry, test_inputs, test_outputs, has_description>>
    /\ UNCHANGED nonBatchVars

NextBatch ==
    \/ SolveProblemEntry
    \/ CliMain
    \/ WebSolve
    \/ SolveUserProblem

(***************************************************************************)
(* evaluate_solution_on_subset: the test evaluation harness                *)
(***************************************************************************)
BatchNames == {"public_tests", "private_tests", "generated_tests"}

\* what the candidate code does on a case: prints the expected output, prints
\* something else, exits with an error, or does not end within the timeout
CaseBehaviours == {"match", "mismatch", "crash", "hang"}

CaseLists == UNION {[1..n -> CaseBehaviours] : n \in 0..MaxTests}

\* a harness that books a timeout as a failure
CaseOutcomeTimeoutAsFailed(behaviour) ==
    CASE behaviour = "match" -> "passed"
      [] OTHER -> "failed"

\* the outcome of one time-boxed execution
CaseOutcome(behaviour) ==
    CASE behaviour = "match" -> "passed"
      [] behaviour = "hang" -> "timed_out"
      [] OTHER -> "failed"

\* a harness that gives up on the batch at the first case that does not pass
NextCaseStoppingAtFailure(j, outcome, n) == IF outcome = "passed" THEN j + 1 ELSE n + 1

\* the case looked at after case j of n: the next one, whatever j's outcome
NextCase(j, outcome, n) == j + 1

ZeroCounts == [passed |-> 0, failed |-> 0, timed_out |-> 0]

HarnessStart ==
    /\ evBatchName \in BatchNames
    /\ evCases \in CaseLists
    /\ evPc = "run"
    /\ evIdx = 1
    /\ evResults = << >>
    /\ evCounts = ZeroCounts

HarnessIdle ==
    /\ evBatchName = "none"
    /\ evCases = << >>
    /\ evPc = "off"
    /\ evIdx = 1
    /\ evResults = << >>
    /\ evCounts = ZeroCounts

\* one case: the code is run on the case's input, time-boxed, and its output
\* compared with the expected output
RunCase ==
    /\ evPc = "run"
    /\ evIdx <= Len(evCases)
    /\ LET outcome == CaseOutcome(evCases[evIdx])
       IN /\ evResults' = Append(evResults, [case |-> evIdx, outcome |-> outcome])
          /\ evCounts' = [evCounts EXCEPT ![outcome] = @ + 1]
          /\ evIdx' = NextCase(evIdx, outcome, Len(evCases))
    /\ UNCHANGED <<evBatchName, evCases, evPc>>
    /\ UNCHANGED nonHarnessVars

\* return test_results, passed, failed, timed_out
EvaluateReturn ==
    /\ evPc = "run"
    /\ evIdx > Len(evCases)
    /\ evPc' = "returned"
    /\ UNCHANGED <<evBatchName, evCases, evIdx, evResults, evCounts>>
    /\ UNCHANGED nonHarnessVars

NextHarness ==
    \/ RunCase
    \/ EvaluateReturn

(***************************************************************************)
(* Two solve_dataset runs at the same time on one solution-database file   *)
(***************************************************************************)
Runs == {"A", "B"}

\* the entry a run writes for a problem it solved in iteration_0
SolvedEntry == <<FullRecord(1, 0, 0, 1, 0, 0)>>

RunsStart ==
    /\ ccFile = NoFile
    /\ ccDatabase = [r \in Runs |-> << >>]
    /\ ccPc = [r \in Runs |-> "load"]
    /\ ccProblem = [r \in Runs |-> 0]
    /\ ccWork \in {w \in [Runs -> SUBSET ProblemNumbers] : w["A"] \cap w["B"] = {}}
    /\ ccWrote = [r \in Runs |-> {}]

RunsIdle ==
    /\ ccFile = NoFile
    /\ ccDatabase = [r \in Runs |-> << >>]
    /\ ccPc = [r \in Runs |-> "off"]
    /\ ccProblem = [r \in Runs |-> 0]
    /\ ccWork = [r \in Runs |-> {}]
    /\ ccWrote = [r \in Runs |-> {}]

\* lines 24-31 in run r: the whole file is read into the run's own dict
RunLoad(r) ==
    /\ ccPc[r] = "load"
    /\ ccDatabase' = [ccDatabase EXCEPT ![r] =
                         IF ccFile.exists THEN json_load_sorted(ccFile.members)
                         ELSE LoadExcept.database]
    /\ ccPc' = [ccPc EXCEPT ![r] = "problem"]
    /\ UNCHANGED <<ccFile, ccProblem, ccWork, ccWrote>>
    /\ UNCHANGED nonRunsVars

\* lines 45-49 in run r: the problem is not valid, the loop goes on
RunSkip(r) ==
    /\ ccPc[r] = "problem"
    /\ ccProblem[r] < NumProblems
    /\ ccProblem[r] \notin ccWork[r]
    /\ ccProblem' = [ccProblem EXCEPT ![r] = @ + 1]
    /\ UNCHANGED <<ccFile, ccDatabase, ccPc, ccWork, ccWrote>>
    /\ UNCHANGED nonRunsVars

\* lines 59-119 in run r: the problem is solved, its entry is put into the
\* run's dict, and the whole dict is written over the file
RunWrite(r) ==
    /\ ccPc[r] = "problem"
    /\ ccProblem[r] < NumProblems
    /\ ccProblem[r] \in ccWork[r]
    /\ ccDatabase' = [ccDatabase EXCEPT ![r] =
                         DictSet(@, WriteKey(ccProblem[r]), SolvedEntry)]
    /\ ccFile' = [exists |-> TRUE, members |-> json_dump(ccDatabase'[r])]
    /\ ccWrote' = [ccWrote EXCEPT ![r] = @ \cup {ccProblem[r]}]
    /\ ccProblem' = [ccProblem EXCEPT ![r] = @ + 1]
    /\ UNCHANGED <<ccPc, ccWork>>
    /\ UNCHANGED nonRunsVars

\* line 34 in run r: range(0, num_problems) is exhausted
RunFinish(r) ==
    /\ ccPc[r] = "problem"
    /\ ccProblem[r] = NumProblems
    /\ ccPc' = [ccPc EXCEPT ![r] = "finished"]
    /\ UNCHANGED <<ccFile, ccDatabase, ccProblem, ccWork, ccWrote>>
    /\ UNCHANGED nonRunsVars

NextRuns ==
    \/ \E r \in Runs : RunLoad(r)
    \/ \E r \in Runs : RunSkip(r)
    \/ \E r \in Runs : RunWrite(r)
    \/ \E r \in Runs : RunFinish(r)

(***************************************************************************)
(* Two DatabaseManager.save_problem calls at the same time                 *)
(***************************************************************************)
Callers == {"first", "second"}

\* cursor.fetchone() of the SELECT: the id of the first matching row, 0 for None
FetchExisting(tbl, problem) ==
    IF ExistingProblem(tbl, problem) = {} THEN 0
    ELSE tbl[CHOOSE j \in ExistingProblem(tbl, problem) :
                \A k \in ExistingProblem(tbl, problem) : j <= k].id

\* INSERT INTO problems (name, description, test_cases) VALUES (?, ?, ?)
InsertProblem(tbl, problem) ==
    Append(tbl, [id |-> Len(tbl) + 1, name |-> problem.name,
                 description |-> problem.description])

\* the tables earlier, sequential save_problem calls have left
EarlierTables ==
    LET one == save_problem(<< >>, [name |-> "Factorial", description |-> "n!"],
                            FALSE).table
        two == save_problem(one, [name |-> "Factorial", description |-> "n! mod p"],
                            FALSE).table
    IN {<< >>, one, two}

SavesStart ==
    /\ spTable \in EarlierTables
    /\ spProblem \in [Callers -> ProblemInputs]
    /\ spPc = [c \in Callers |-> "select"]
    /\ spExisting = [c \in Callers |-> 0]
    /\ spId = [c \in Callers |-> 0]

SavesIdle ==
    /\ spTable = << >>
    /\ spProblem = [c \in Callers |-> [name |-> "", description |-> ""]]
    /\ spPc = [c \in Callers |-> "off"]
    /\ spExisting = [c \in Callers |-> 0]
    /\ spId = [c \in Callers |-> 0]

\* lines 119-126 in call c: the SELECT runs outside any transaction
SaveSelect(c) ==
    /\ spPc[c] = "select"
    /\ spExisting' = [spExisting EXCEPT ![c] = FetchExisting(spTable, spProblem[c])]
    /\ spPc' = [spPc EXCEPT ![c] = "write"]
    /\ UNCHANGED <<spTable, spProblem, spId>>
    /\ UNCHANGED nonSavesVars

\* lines 128-152 in call c: UPDATE of the row found, or INSERT of a new row,
\* then commit; the write transaction of one call excludes the other's
SaveWrite(c) ==
    /\ spPc[c] = "write"
    /\ IF spExisting[c] # 0
       THEN /\ spId' = [spId EXCEPT ![c] = spExisting[c]]
            /\ UNCHANGED spTable
       ELSE /\ spTable' = InsertProblem(spTable, spProblem[c])
            /\ spId' = [spId EXCEPT ![c] = Len(spTable')]
    /\ spPc' = [spPc EXCEPT ![c] = "done"]
    /\ UNCHANGED <<spProblem, spExisting>>
    /\ UNCHANGED nonSavesVars

NextSaves ==
    \/ \E c \in Callers : SaveSelect(c)
    \/ \E c \in Callers : SaveWrite(c)

LaterIdle == StepIdle /\ EvalIdle /\ RunsIdle /\ SavesIdle

InitRouter ==
    RouterStart /\ SolvedIdle /\ PipelineIdle /\ StoreIdle /\ DatasetIdle /\ BatchIdle
    /\ HarnessIdle /\ LaterIdle

SpecRouter == InitRouter /\ [][NextRouter]_vars

InitSolved ==
    SolvedStart /\ RouterIdle /\ PipelineIdle /\ StoreIdle /\ DatasetIdle /\ BatchIdle
    /\ HarnessIdle /\ LaterIdle

SpecSolved == InitSolved /\ [][NextSolved]_vars

InitPipeline ==
    PipelineStart /\ RouterIdle /\ SolvedIdle /\ StoreIdle /\ DatasetIdle /\ BatchIdle
    /\ HarnessIdle /\ LaterIdle

InitStore ==
    StoreStart /\ RouterIdle /\ SolvedIdle /\ PipelineIdle /\ DatasetIdle /\ BatchIdle
    /\ HarnessIdle /\ LaterIdle

SpecStore == InitStore /\ [][NextStore]_vars

InitMain ==
    MainStart /\ RouterIdle /\ SolvedIdle /\ PipelineIdle /\ DatasetIdle /\ BatchIdle
    /\ HarnessIdle /\ LaterIdle

SpecMain == InitMain /\ [][NextMain]_vars

SpecPipeline == InitPipeline /\ [][NextPipeline]_vars

InitDataset ==
    DatasetStart /\ RouterIdle /\ SolvedIdle /\ PipelineIdle /\ StoreIdle /\ BatchIdle
    /\ HarnessIdle /\ LaterIdle

InitBatch ==
    BatchStart /\ RouterIdle /\ SolvedIdle /\ PipelineIdle /\ StoreIdle /\ DatasetIdle
    /\ HarnessIdle /\ LaterIdle

InitHarness ==
    HarnessStart /\ RouterIdle /\ SolvedIdle /\ PipelineIdle /\ StoreIdle /\ DatasetIdle
    /\ BatchIdle /\ LaterIdle

FirstIdle ==
    /\ RouterIdle /\ SolvedIdle /\ PipelineIdle /\ StoreIdle /\ DatasetIdle
    /\ BatchIdle /\ HarnessIdle

InitStep == StepStart /\ FirstIdle /\ EvalIdle /\ RunsIdle /\ SavesIdle

InitEval == EvalStart /\ FirstIdle /\ StepIdle /\ RunsIdle /\ SavesIdle

InitRuns == RunsStart /\ FirstIdle /\ StepIdle /\ EvalIdle /\ SavesIdle

SpecRuns == InitRuns /\ [][NextRuns]_vars

InitSaves == SavesStart /\ FirstIdle /\ StepIdle /\ EvalIdle /\ RunsIdle

SpecSaves == InitSaves /\ [][NextSaves]_vars

SpecEval == InitEval /\ [][NextEval]_vars

SpecStep == InitStep /\ [][NextStep]_vars

SpecHarness == InitHarness /\ [][NextHarness]_vars

\* the harness loop is sequential code: it keeps taking steps while it can
SpecHarnessFair == SpecHarness /\ WF_vars(NextHarness)

SpecBatch == InitBatch /\ [][NextBatch]_vars

SpecDataset == InitDataset /\ [][NextDataset]_vars

\* the two programs that keep results on disk: the dataset driver with its
\* JSON file, or the simplified solver with its SQLite store
InitPersistence == InitDataset \/ InitStore

NextPersistence == NextDataset \/ NextStore

SpecPersistence == InitPersistence /\ [][NextPersistence]_vars

(***************************************************************************)
(* Claims about send_inference and chat_completion (under SpecRouter)      *)
(***************************************************************************)
SiFinished == siPc \in {"returned", "raised"}

\* C3: send_inference calls f for the model ids in list order, once per list
\* position, makes no call after one that did not raise, and returns the
\* value of that call; with [A, B, C], A and B failing and C answering, f is
\* called for A, B, C once each and the result is C's output.
C3_FallbackOrder ==
    /\ Len(fCalls) <= Len(all_models)
    /\ \A j \in 1..Len(fCalls) : fCalls[j].model = all_models[j]
    /\ \A j \in 1..Len(fCalls) : j < Len(fCalls) => fCalls[j].outcome = "raised"
    /\ siPc = "returned" =>
          /\ Len(fCalls) >= 1
          /\ fCalls[Len(fCalls)].outcome = "ok"
          /\ siResult.kind = "value"
          /\ siResult.value = Response(all_models[Len(fCalls)])
    /\ (SiFinished /\ \E j \in 1..Len(fCalls) : fCalls[j].outcome = "ok") => siPc = "returned"

\* C3 witness: models [A, B, C], A and B always raise, C answers, and
\* send_inference has returned after calling all three.
C3_Witness ==
    /\ all_models = <<"gemini-2.0-flash", "other-model", "gemini-2.0-pro">>
    /\ backend["models/gemini-2.0-flash"] = -1
    /\ siPc = "returned"
    /\ Len(fCalls) = 3
    /\ siResult.kind = "value"
    /\ siResult.value = Response("gemini-2.0-pro")

\* C4: when f raises for every model id, send_inference raises the exception
\* of the last id tried, after trying every id; it never returns a value
\* (None included) in that case.
C4_AllFailRaisesLast ==
    (SiFinished /\ \A j \in 1..Len(fCalls) : fCalls[j].outcome = "raised") =>
        /\ siPc = "raised"
        /\ Len(fCalls) = Len(all_models)
        /\ siResult.kind = "exception"
        /\ siResult.value = BackendError(all_models[Len(all_models)])

\* C4 witness: a list of three ids all of which failed; send_inference raised.
C4_Witness ==
    /\ siPc = "raised"
    /\ Len(all_models) = 3
    /\ all_models[3] # all_models[1]

\* C5 (as claimed): an invoke whose backend call raises is retried, so an
\* invoke raises to its caller only after GEMINI_RETRIES failed backend
\* calls, and never makes more than GEMINI_RETRIES backend calls.
C5_RetriedBeforeRaise ==
    \A j \in 1..Len(fCalls) :
        /\ fCalls[j].attempts <= GEMINI_RETRIES
        /\ fCalls[j].outcome = "raised" => fCalls[j].attempts = GEMINI_RETRIES

\* C6 (as claimed): every backend generate call is preceded by its own
\* acquisition of the rate limiter: before the j-th call at least j
\* acquisitions were made.
C6_LimiterBeforeBackend ==
    \A j \in 1..Len(backendLog) : backendLog[j].acquired >= j

(***************************************************************************)
(* Claims about is_solved (under SpecSolved)                               *)
(***************************************************************************)
\* C8: is_solved(s) is true iff failed_generate + timeout_generate +
\* failed_private + timeout_private = 0 and passed_private + passed_generate
\* > 0, and changing the public-batch counts of s does not change it.
C8_SolvedPredicate ==
    solvedOut.called =>
        /\ solvedOut.value =
              (/\ solvedIn["test_failed_generate"] + solvedIn["test_timeout_generate"]
                    + solvedIn["test_failed_private"] + solvedIn["test_timeout_private"] = 0
               /\ solvedIn["test_passed_private"] + solvedIn["test_passed_generate"] > 0)
        /\ \A pub \in [PublicFields -> 0..MaxCount] :
              is_solved([f \in RecordFields |->
                            IF f \in PublicFields THEN pub[f] ELSE solvedIn[f]]) = solvedOut.value

\* C8 witness: a record with passing tests, no failure and one generated-test
\* timeout has been judged, and judged unsolved.
C8_Witness ==
    /\ solvedOut.called
    /\ ~solvedOut.value
    /\ solvedIn["test_timeout_generate"] > 0
    /\ solvedIn["test_failed_generate"] + solvedIn["test_failed_private"]
          + solvedIn["test_timeout_private"] = 0
    /\ solvedIn["test_passed_private"] > 0

(***************************************************************************)
(* Claims about ProblemSolver.solve (under SpecPipeline)                   *)
(***************************************************************************)
IsPrefix(a, b) == Len(a) <= Len(b) /\ \A j \in 1..Len(a) : a[j] = b[j]

\* C9: when a stage raises (every model exhausted, or a field missing while
\* its prompt is rendered) no later stage is executed, solve returns the
\* empty string, and no exception leaves solve.
C9_StageFailureReturnsEmpty ==
    /\ psResult.kind # "exception"
    /\ psRaised.step # "none" =>
          /\ Len(psLog) >= 1
          /\ psLog[Len(psLog)] = psRaised.step
          /\ psPc \in {"except", "done"}
          /\ psPc = "done" => (psResult.kind = "value" /\ psResult.value = EmptyString)

\* C9 witness: the fourth stage raised after three stages ran, and solve has
\* returned.
C9_Witness ==
    /\ psPc = "done"
    /\ psRaised = [step |-> "run_generate_ai_tests", why |-> "models_exhausted"]
    /\ Len(psLog) = 5
    /\ psResult.value = EmptyString

\* C10: with baseline mode off, the steps solve calls are set_configurations
\* and then SelfReflect, GeneratePossibleSolutions, ChooseBestSolution,
\* GenerateAiTests, InitialCodeGeneration, EvaluatePublicTests,
\* EvaluateAiTests, in that order and once each; each stage receives the
\* dict the previous one returned; the text returned after the last stage is
\* the code that dict holds.
C10_StagesInOrder ==
    ~use_baseline =>
        /\ IsPrefix(psLog, PipelineOrder)
        /\ psProblem.applied =
              (IF psRaised.step \in Steps THEN SubSeq(psLog, 1, Len(psLog) - 1) ELSE psLog)
        /\ (psPc = "done" /\ psRaised = NoRaise) =>
              /\ psLog = PipelineOrder
              /\ psResult.kind = "value"
              /\ psResult.value = psProblem.code

\* C10 witness: the full pipeline ran to its end, both evaluation stages
\* changed the code, and solve returned the code held after the last stage.
C10_Witness ==
    /\ ~use_baseline
    /\ psPc = "done"
    /\ psRaised = NoRaise
    /\ psLog = PipelineOrder
    /\ psResult.value = 3

\* C11: with solve.use_baseline set, the only step solve calls is the single
\* baseline generation: set_configurations and the seven stages never run,
\* and when the baseline returns, solve returns the code it generated.
C11_BaselineOnly ==
    use_baseline =>
        /\ \A j \in 1..Len(psLog) : psLog[j] \notin Steps
        /\ IsPrefix(psLog, <<"run_baseline">>)
        /\ (psPc = "done" /\ psRaised = NoRaise) =>
              /\ psLog = <<"run_baseline">>
              /\ psProblem.applied = <<"run_baseline">>
              /\ psResult.kind = "value"
              /\ psResult.value = psProblem.code

\* C11 witness: baseline mode, the baseline returned code and solve returned it.
C11_Witness ==
    /\ use_baseline
    /\ psPc = "done"
    /\ psRaised = NoRaise
    /\ psLog = <<"run_baseline">>
    /\ psResult.kind = "value"
    /\ psResult.value # EmptyString

(***************************************************************************)
(* Claims about solve_problem and the solution store (under SpecStore)     *)
(***************************************************************************)
\* the success=true rows that existed before the latest call for its problem
\* and model
PriorSuccessRows ==
    LET ids == {problems[j].id : j \in ExistingProblem(problems, lastCall.problem)}
    IN {r \in {solutions[j] : j \in 1..lastCall.rows_before} :
           r.problem_id \in ids /\ r.model_id = lastCall.model /\ r.success}

\* the latest call had caching enabled, a success=true row for its problem
\* and model existed, and save_problem and get_solutions_for_problem worked
CacheHitDue ==
    /\ callNo > 0
    /\ lastCall.use_cache
    /\ ~lastCall.store_failed
    /\ PriorSuccessRows # {}

CacheHitAnswered ==
    CacheHitDue =>
        /\ lastCall.from_cache
        /\ lastCall.result \in {r.code : r \in PriorSuccessRows}
        /\ lastCall.model_calls = 0
        /\ Len(solutions) = lastCall.rows_before

\* C7: solve_problem with caching enabled and an existing success=true row for
\* (problem id, current model), the store answering, returns the code of such
\* a row, makes no pipeline or model call and adds no row; two such calls in a
\* row for the same problem and model return the same code.
C7_CacheHitReturnsStoredCode ==
    /\ []CacheHitAnswered
    /\ [][(/\ callNo' = callNo + 1
           /\ CacheHitDue
           /\ CacheHitDue'
           /\ lastCall'.problem = lastCall.problem
           /\ lastCall'.model = lastCall.model)
          => lastCall'.result = lastCall.result]_vars

\* C7 witness: the second of two cache hits in a row for one problem and
\* model, a second after the row was stored.
C7_Witness ==
    /\ CacheHitDue
    /\ lastCall.after_hit
    /\ lastCall.from_cache
    /\ lastCall.result = CodeText(0)
    /\ clock = 1

(***************************************************************************)
(* Claims about solve_dataset (under SpecDataset)                          *)
(***************************************************************************)
\* the entry solve_dataset builds, or has stored, for problem p in this call
RunEntry(p) ==
    IF dsPc \in {"iteration", "write"} /\ p = problem_number
    THEN problem_database
    ELSE DictGet(database, WriteKey(p), << >>)

\* problem p's entry has been stored and written in this call
Written(p) == HasKey(database, WriteKey(p))

\* a record other than {}
NonEmpty(record) == DOMAIN record # {}

RecordSolved(record) == NonEmpty(record) /\ is_solved(record)

SameRecord(a, b) == DOMAIN a = DOMAIN b /\ \A f \in DOMAIN a : a[f] = b[f]

\* C1: if the record of iteration k of a problem, computed in this call or
\* loaded from the database, satisfies is_solved, the solver is not invoked
\* for any later iteration of that problem.
C1_SolvedStopsLaterIterations ==
    \A p \in ProblemNumbers, k \in Iterations :
        (\/ RecordSolved(EntryGet(RunEntry(p), k))
         \/ RecordSolved(prev_record(dsLoaded, p, k)))
        => \A k2 \in Iterations : k2 > k => <<p, k2>> \notin solverCalls

\* C1 witness: a call has finished in which one problem was solved afresh in
\* its first iteration and another in a later one, after an unsolved record.
C1_Witness ==
    /\ dsPc = "finished"
    /\ \E p \in ProblemNumbers :
          /\ <<p, 0>> \in solverCalls
          /\ Len(RunEntry(p)) = 1
          /\ RecordSolved(EntryGet(RunEntry(p), 0))
    /\ \E p \in ProblemNumbers :
          /\ <<p, 1>> \in solverCalls
          /\ Len(RunEntry(p)) = 2
          /\ ~RecordSolved(EntryGet(RunEntry(p), 0))
          /\ RecordSolved(EntryGet(RunEntry(p), 1))

\* C2: if the loaded database holds a non-empty record for problem
\* p and iteration k, neither the solver nor the harness is invoked for (p, k),
\* and the entry written for p holds, for iteration k, the loaded record.
C2_LoadedRecordWrittenBack ==
    \A p \in ProblemNumbers, k \in Iterations :
        NonEmpty(prev_record(dsLoaded, p, k))
        => /\ <<p, k>> \notin solverCalls
           /\ <<p, k>> \notin harnessCalls
           /\ Written(p) => /\ k < Len(RunEntry(p))
                            /\ SameRecord(EntryGet(RunEntry(p), k),
                                          prev_record(dsLoaded, p, k))

\* the file holds, for problem p and iteration k, the given record
FileHolds(p, k, record) ==
    /\ dsFile.exists
    /\ \E j \in 1..Len(dsFile.members) :
          /\ dsFile.members[j].key = p
          /\ SameRecord(EntryGet(dsFile.members[j].entry, k), record)

\* C12: whenever the iteration loop stands before an iteration, the record
\* of every iteration of the problem that was run and evaluated in this call
\* is already in the database file, so that stopping there loses none of them.
C12_IterationWrittenBeforeNext ==
    (dsPc = "iteration" /\ iteration < NumIterations)
    => \A k \in Iterations :
          (k < iteration /\ <<problem_number, k>> \in harnessCalls)
          => FileHolds(problem_number, k, EntryGet(problem_database, k))

\* C13: when the solver returned the empty string for an iteration (every
\* model failed), the record stored for that iteration holds the nine counts
\* (passed, failed, timed out, for the public, private and generated
\* batches), all zero, and the loop has gone on without raising.
C13_EmptySolutionStoresZeroCounts ==
    \A p \in ProblemNumbers, k \in Iterations :
        (<<p, k>> \in (solverCalls \ harnessCalls) /\ k < Len(RunEntry(p)))
        => /\ CountFields \subseteq DOMAIN EntryGet(RunEntry(p), k)
           /\ \A f \in CountFields : EntryGet(RunEntry(p), k)[f] = 0

\* C14: solve_dataset reaches every problem index: it never ends, by
\* returning or by an exception of one problem, with a problem index of
\* the split not yet reached.
C14_EveryProblemReached ==
    dsPc \in {"finished", "raised"} => problem_number = NumProblems

(***************************************************************************)
(* Claims about persistence errors (under SpecPersistence)                 *)
(***************************************************************************)
\* after a failed load, every record of this call's entries was computed by
\* the solver in this call: none was taken over, no problem was skipped
RecomputedAfterFailedLoad ==
    loadFailed =>
        /\ dsLoaded = << >>
        /\ \A p \in ProblemNumbers, k \in Iterations :
              k < Len(RunEntry(p)) => <<p, k>> \in solverCalls

\* a solve_problem call in which save_problem or get_solutions_for_problem
\* failed ran the pipeline and returned what the pipeline returned
SolvedDespiteStoreFailure ==
    lastCall.store_failed =>
        /\ ~lastCall.from_cache
        /\ lastCall.model_calls >= 1
        /\ \E run \in StoreRuns :
              /\ lastCall.result = SolveText(run, callNo)
              /\ lastCall.model_calls = Len(SolveCalls(run))

\* C15: a persistence error is handled as a cache miss.  When the database
\* file cannot be loaded, solve_dataset goes on to the problem loop with an
\* empty database and recomputes every record; when save_problem or
\* get_solutions_for_problem fails, solve_problem runs the pipeline and
\* returns its result; the storage error reaches the caller in neither case.
C15_PersistenceErrorIsCacheMiss ==
    /\ [](RecomputedAfterFailedLoad /\ SolvedDespiteStoreFailure)
    /\ [][dsPc = "load" => (/\ dsPc' = "problem"
                            /\ loadFailed' => database' = << >>)]_vars

\* C15 witness: a cached successful row existed for the problem and model,
\* the lookup failed, and the call returned freshly generated code.
C15_Witness ==
    /\ lastCall.store_failed
    /\ lastCall.use_cache
    /\ ~lastCall.from_cache
    /\ PriorSuccessRows # {}
    /\ lastCall.result.kind = "code"

(***************************************************************************)
(* Claims about the DatabaseManager operations (under SpecStore)           *)
(***************************************************************************)
\* (name, description) pairs save_problem is applied to
ProblemKeys == [name : {"Factorial", "Fibonacci"}, description : {"n!", "n! mod p"}]

RowsOf(tbl, problem) ==
    {j \in 1..Len(tbl) : tbl[j].name = problem.name /\ tbl[j].description = problem.description}

\* C16: on every table the store reaches, save_problem called again and
\* again with one (name, description), also with other pairs saved in
\* between, returns the same positive id and leaves exactly one row for the
\* pair; another name or another description gets another id.
C16_SaveProblemIdempotent ==
    /\ \A a \in ProblemKeys :
          LET first == save_problem(problems, a, FALSE)
              second == save_problem(first.table, a, FALSE)
          IN /\ first.id > 0
             /\ second.id = first.id
             /\ second.table = first.table
             /\ Cardinality(RowsOf(second.table, a)) = 1
             /\ \A b \in ProblemKeys \ {a} :
                   LET other == save_problem(second.table, b, FALSE)
                       third == save_problem(other.table, a, FALSE)
                   IN /\ other.id > 0
                      /\ other.id # first.id
                      /\ third.id = first.id
                      /\ third.table = other.table
                      /\ Cardinality(RowsOf(third.table, a)) = 1
    /\ \A j \in 1..Len(problems) :
          /\ problems[j].id > 0
          /\ RowsOf(problems, problems[j]) = {j}

\* C16 witness: two solve_problem calls have saved a problem, the later one
\* the pair the table's one row holds, and the table still has that one row.
C16_Witness ==
    /\ callNo = 2
    /\ ~lastCall.store_failed
    /\ Len(problems) = 1
    /\ lastCall.problem.name = problems[1].name
    /\ lastCall.problem.description = problems[1].description

\* C17, on one table: a successful save_solution appends one row holding its
\* arguments, changes no other row, and raises the model's usage_count by 1,
\* from 0 when the models row was absent; other models rows are untouched.
SaveSolutionAppends(problem_id, model_id, code, success) ==
    LET after == save_solution(solutions, models, problem_id, model_id, code,
                               success, clock, FALSE)
        before_count == IF models[model_id].present THEN models[model_id].usage_count
                        ELSE 0
    IN /\ Len(after.solutions) = Len(solutions) + 1
       /\ \A j \in 1..Len(solutions) : after.solutions[j] = solutions[j]
       /\ after.solutions[Len(solutions) + 1].problem_id = problem_id
       /\ after.solutions[Len(solutions) + 1].model_id = model_id
       /\ after.solutions[Len(solutions) + 1].code = code
       /\ after.solutions[Len(solutions) + 1].success = success
       /\ after.models[model_id].present
       /\ after.models[model_id].usage_count = before_count + 1
       /\ \A m \in ModelKeys \ {model_id} : after.models[m] = models[m]

\* C17: every successful save_solution adds exactly one solutions row, leaves
\* the existing rows as they are and raises usage_count of its model by one;
\* no step of the store removes or changes a solutions row.
C17_SaveSolutionAppendOnly ==
    /\ [](\A problem_id \in 1..(Len(problems) + 1), model_id \in SolverModels,
            code \in {CodeText(0), ErrorText}, success \in BOOLEAN :
              SaveSolutionAppends(problem_id, model_id, code, success))
    /\ [][/\ Len(solutions') \in {Len(solutions), Len(solutions) + 1}
          /\ \A j \in 1..Len(solutions) : solutions'[j] = solutions[j]]_vars

\* C17 witness: a solve_problem call has saved a second solution of a problem
\* by a model whose first solution is still in the table.
C17_Witness ==
    /\ callNo >= 1
    /\ ~lastCall.from_cache
    /\ Len(solutions) = 2
    /\ lastCall.rows_before = 1
    /\ solutions[1].problem_id = solutions[2].problem_id
    /\ solutions[1].model_id = solutions[2].model_id
    /\ models[solutions[2].model_id].usage_count = 2

\* C18: get_solutions_for_problem(p) returns all and only the rows of
\* problem p, each once, and a row saved later (a larger rowid) never comes
\* after a row saved earlier, rows of one second included.
C18_NewestFirst ==
    \A problem_id \in 1..(Len(problems) + 1) :
        LET rows == get_solutions_for_problem(solutions, problem_id, clock, FALSE)
        IN /\ {rows[j].id : j \in 1..Len(rows)} =
                 {solutions[j].id : j \in {i \in 1..Len(solutions) :
                                              solutions[i].problem_id = problem_id}}
           /\ \A i, j \in 1..Len(rows) : i < j => rows[i].id > rows[j].id

(***************************************************************************)
(* Claims about the entry points that accept a test batch (SpecBatch)      *)
(***************************************************************************)
\* C19: at every entry point, a batch whose inputs and outputs differ in
\* length is rejected, and neither the solver nor the harness has run.
C19_MismatchedBatchRejected ==
    (batchPc = "done" /\ Len(test_inputs) # Len(test_outputs))
    => /\ batchOutcome.rejected
       /\ ~batchOutcome.solver_called
       /\ ~batchOutcome.evaluated

(***************************************************************************)
(* Claims about the evaluation harness (under SpecHarness)                 *)
(***************************************************************************)
OutcomeCount(outcome) ==
    Cardinality({j \in 1..Len(evResults) : evResults[j].outcome = outcome})

\* C20: the cases of the batch are executed one after the other, each once,
\* whatever the earlier outcomes were; each executed case has exactly one of
\* passed, failed, timed_out, which is what the counters count; and when
\* evaluate returns, every case has run and passed + failed + timed_out is
\* the number of cases of the batch.
C20_EveryCaseRunsOnce ==
    /\ \A j \in 1..Len(evResults) :
          /\ evResults[j].case = j
          /\ evResults[j].outcome \in {"passed", "failed", "timed_out"}
    /\ Len(evResults) <= Len(evCases)
    /\ evCounts.passed = OutcomeCount("passed")
    /\ evCounts.failed = OutcomeCount("failed")
    /\ evCounts.timed_out = OutcomeCount("timed_out")
    /\ evPc = "returned" =>
          /\ Len(evResults) = Len(evCases)
          /\ evCounts.passed + evCounts.failed + evCounts.timed_out = Len(evCases)

\* C20 witness: evaluate has returned on a batch of MaxTests cases whose first
\* case did not pass and whose last case passed.
C20_Witness ==
    /\ evPc = "returned"
    /\ Len(evCases) = MaxTests
    /\ evCases[1] \in {"hang", "mismatch"}
    /\ evCases[MaxTests] = "match"
    /\ evCounts.passed >= 1
    /\ evCounts.failed + evCounts.timed_out >= 1

\* the batch has exactly one case on which the code does not end, and the
\* code is correct on every other case
OneLoopingCase ==
    /\ Cardinality({j \in 1..Len(evCases) : evCases[j] = "hang"}) = 1
    /\ \A j \in 1..Len(evCases) : evCases[j] \in {"hang", "match"}

\* C21: on a batch with one looping case among otherwise correct cases,
\* wherever the looping case stands, evaluate returns, and it then reports
\* one timed_out, no failed, and every other case passed.
C21_TimeoutIsolated ==
    /\ [](OneLoopingCase /\ evPc = "returned"
            => /\ evCounts.timed_out = 1
               /\ evCounts.failed = 0
               /\ evCounts.passed = Len(evCases) - 1)
    /\ (evPc = "run") ~> (evPc = "returned")

\* C21 witness: evaluate has returned on a batch of MaxTests cases whose first
\* case loops; the cases after it were still run and passed.
C21_Witness ==
    /\ evPc = "returned"
    /\ OneLoopingCase
    /\ Len(evCases) = MaxTests
    /\ evCases[1] = "hang"
    /\ evResults[Len(evResults)].outcome = "passed"
    /\ evCounts.timed_out = 1

\* C22: a call made by solve.py run with --no-cache is not answered from
\* the cache: the pipeline is invoked and its text is what is returned.
C22_NoCacheSkipsCache ==
    no_cache => /\ ~lastCall.from_cache
                /\ lastCall.model_calls >= 1

\* the test responses that hold "fails", "incorrect" or "error" in some
\* letter case
FlaggingResponses ==
    {<<"F", "a", "i", "l", "s">>,
     <<"I", "N", "C", "O", "R", "R", "E", "C", "T">>,
     <<"n", "o", " ", "e", "r", "r", "o", "r">>}

TestReturned == svReturned >= 3

\* C23: solve issues analyze, solve, test in this order, each after the
\* call before it has returned; it issues refine iff the test response holds
\* one of the three words in any letter case, and then returns the refined
\* text, otherwise the initial solution; it issues at most four calls.
C23_CallOrderAndRefine ==
    /\ IsPrefix(svCalls, <<"analyze", "solve", "test", "refine">>)
    /\ Len(svCalls) <= 4
    /\ svPc = "await" => svReturned = Len(svCalls) - 1
    /\ svPc = "call" => svReturned = Len(svCalls)
    /\ svPc = "done" /\ TestReturned =>
          /\ Len(svCalls) = 4 <=> svRun.test_results \in FlaggingResponses
          /\ svReturned = Len(svCalls) =>
                svResult = IF svRun.test_results \in FlaggingResponses
                           THEN RefinedText ELSE SolutionText

\* C23 witness: the test response was "Fails"; the refine call was issued as
\* the fourth call and its response returned.
C23_Witness ==
    /\ svPc = "done"
    /\ svRun.test_results = <<"F", "a", "i", "l", "s">>
    /\ svCalls = <<"analyze", "solve", "test", "refine">>
    /\ svReturned = 4
    /\ svResult = RefinedText

\* a model call of this run has raised
CallRaised == svPc = "done" /\ svReturned < Len(svCalls)

\* C24: no exception leaves solve; when a model call raises, no later call
\* is issued and solve returns a non-empty diagnostic text.
C24_NeverRaisesReturnsDiagnostic ==
    /\ [](~svRaised)
    /\ [](CallRaised =>
            /\ Len(svCalls) = svRun.raises
            /\ svResult \in {ModelUnavailableText, InvalidKeyText, ErrorText}
            /\ TextLen(svResult) > 0)
    /\ [][CallRaised => UNCHANGED stepVars]_vars

\* C24 witness: the solve call, the second one, raised with a model-not-found
\* error; solve returned the model-unavailable message.
C24_Witness ==
    /\ CallRaised
    /\ svRun.raises = 2
    /\ svRun.error = "NOT_FOUND models/"
    /\ svCalls = <<"analyze", "solve">>
    /\ svResult = ModelUnavailableText

\* a record with the timeout counts it lacks taken as 0
WithTimeouts(v) ==
    [f \in RecordFields |-> IF f \in DOMAIN v THEN v[f] ELSE 0]

\* the records of the entry that hold a solution
Holders(entry) ==
    {i \in 1..Len(entry.solution) : "solution" \in DOMAIN entry.solution[i]}

SomeHolderSolved(entry) ==
    \E i \in Holders(entry) : is_solved(WithTimeouts(entry.solution[i]))

\* C25: a valid problem adds one to total_passed iff one of its records that
\* hold a solution satisfies the solved predicate (missing timeout counts
\* taken as 0), one to total_failed iff it has such records and none does,
\* and nothing otherwise; no problem is counted twice.
C25_CountedOncePassedOrFailed ==
    /\ [](total_passed + total_failed <= edIdx)
    /\ [][edIdx' # edIdx /\ edEntry'.valid /\ ~edEntry'.raised =>
            /\ total_passed' - total_passed
                 = IF SomeHolderSolved(edEntry') THEN 1 ELSE 0
            /\ total_failed' - total_failed
                 = IF Holders(edEntry') # {} /\ ~SomeHolderSolved(edEntry') THEN 1 ELSE 0]_vars

\* C25 witness: a valid problem whose first record failed and whose second,
\* a record without timeout fields, passes was counted as passed; an earlier
\* problem was counted as failed.
C25_Witness ==
    /\ edEntry.valid /\ ~edEntry.raised
    /\ Len(edEntry.solution) = 2
    /\ edEntry.solution[1] = FullRecord(1, 1, 0, 0, 0, 0)
    /\ edEntry.solution[2] = OldRecord(0, 0, 1, 0)
    /\ total_passed = 1
    /\ total_failed = 1

DiagnosticTexts == {ModelUnavailableText, InvalidKeyText, ErrorText}

\* C26: a solution row has success = true only if its code came from a
\* pipeline run that ended without an exception, so no call answered from the
\* cache returns a diagnostic message.
C26_SuccessOnlyWithoutException ==
    /\ \A j \in 1..Len(solutions) :
          solutions[j].success => solutions[j].code \notin DiagnosticTexts
    /\ lastCall.from_cache => lastCall.result \notin DiagnosticTexts

\* the save_solution calls that succeeded for a model id: each appended one
\* row, and rows are never removed
SavedFor(m) == Cardinality({j \in 1..Len(solutions) : solutions[j].model_id = m})

\* C27: usage_count of a model id is the number of successful save_solution
\* calls made for it.
C27_UsageCountCountsSaves ==
    \A m \in ModelKeys :
        (IF models[m].present THEN models[m].usage_count ELSE 0) = SavedFor(m)

\* the entries the dict in memory holds for problem p
EntriesFor(p) == {i \in 1..Len(database) : database[i].key.n = p}

\* the members the file holds for problem p
MembersFor(p) == {i \in 1..Len(dsFile.members) : dsFile.members[i].key = p}

\* C30: the database solve_dataset holds and writes has at most one entry
\* per problem index, also after a problem with a loaded record was
\* processed again: never one under the str key and one under the int key.
C30_OneEntryPerProblem ==
    \A p \in ProblemNumbers :
        /\ Cardinality(EntriesFor(p)) <= 1
        /\ Cardinality(MembersFor(p)) <= 1

BothFinished == \A r \in Runs : ccPc[r] = "finished"

\* C28: once two runs that worked on different problems of one file have
\* both finished, the file holds every record either of them wrote.
C28_NoRecordLost ==
    BothFinished =>
        \A r \in Runs : \A p \in ccWrote[r] : p \in KeyTexts(ccFile.members)

SamePair ==
    /\ spProblem["first"] = spProblem["second"]
    /\ \A c \in Callers : spPc[c] = "done"

\* C29: two save_problem calls for the same (name, description) leave one
\* problems row for the pair, and both return its id.
C29_OneRowBothIds ==
    SamePair =>
        /\ Cardinality(ExistingProblem(spTable, spProblem["first"])) = 1
        /\ spId["first"] = spId["second"]

====
